---- MODULE Spec2Model ----
(***************************************************************************)
(* Expander turn tracker (src/app.js).  The file holds two variants of the *)
(* tracker: the localStorage ("legacy") variant, lines 1094-1788, whose    *)
(* state is one object with snapshot history entries, and the API variant, *)
(* lines 1-1092, whose state is derived from turn rows kept by the server  *)
(* (src/api/turns.js, src/api/settings.js).                                *)
(*                                                                         *)
(* Time.  An instant is a number of hours since the UTC midnight that      *)
(* starts day 0.  The browser's zone is tz hours east of UTC and moves its *)
(* clocks one hour forward at 02:00 local time of day dstDay (a dstDay     *)
(* past the horizon means no change of clocks).  A calendar date is a day  *)
(* number; an absent date (null) is the empty set and a present one is a   *)
(* one-element set.                                                        *)
(***************************************************************************)
EXTENDS Integers, Sequences, FiniteSets, TLC

VARIABLES
    today,          \* the local calendar day the wall clock shows
    tz,             \* the zone's standard offset from UTC, in hours
    dstDay,         \* the local day on which clocks spring forward
    state,          \* legacy: the module-level `state` object
    defaultHistory, \* legacy: the array held by defaultState.history
    aliased,        \* legacy: state.history is that very array
    stored,         \* legacy: localStorage[STORAGE_KEY], {} when absent
    appState,       \* API variant: the module-level `state` object
    defaultSettings,\* API variant: the object held by defaultState.settings
    settingsAliased,\* API variant: state.settings is that very object
    dom,            \* API variant: the buttons drawn by the last render()
    dbTurns,        \* server: the user's rows of table turns
    dbSettings,     \* server: the user's row of table settings
    dbClock,        \* server: NOW(), one tick per request that inserts
    weekday0,       \* the weekday (0 = Sunday) of day 0
    device2,        \* API variant: state and buttons of the user's second device
    server,         \* server: users, tokens, and requests between two statements
    outcome,        \* what the last handler did, or what the last call returned
    used            \* how many settings edits and failed calls the run has seen

envVars == <<today, tz, dstDay, weekday0, device2, server>>
legacyVars == <<state, defaultHistory, aliased, stored>>
apiVars == <<appState, defaultSettings, settingsAliased, dom, dbTurns, dbSettings, dbClock>>
vars == <<today, tz, dstDay, weekday0, device2, server, state, defaultHistory, aliased, stored,
          appState, defaultSettings, settingsAliased, dom, dbTurns, dbSettings, dbClock,
          outcome, used>>

----------------------------------------------------------------------------
(* Bounds of the model *)

MaxDay == 3
MaxInput == 2
MaxHistory == 2
MaxEdits == 1
MaxFailures == 1
MaxPosts == 3

TzOffsets == {0 - 1, 0, 1}
DstDays == {2, MaxDay + 1}
Weekdays == {5, 6}
InputValues == (0 - 1) .. MaxInput

(* Program constants *)

DefaultTopTotal == 27
DefaultBottomTotal == 23
DefaultIntervalDays == 2
InitialDone == 1
HistoryCap == 50
HoursPerDay == 24

Null == {}
Some(x) == {x}
Val(o) == CHOOSE x \in o : TRUE

Max2(a, b) == IF a >= b THEN a ELSE b
Min2(a, b) == IF a <= b THEN a ELSE b

----------------------------------------------------------------------------
(* The wall clock and the JavaScript Date operations the tracker uses *)

Offset(d) == tz + (IF d > dstDay THEN 1 ELSE 0)

\* new Date(y, m, d) / setHours(0,0,0,0): the instant of local midnight of day d
Midnight(d) == HoursPerDay * d - Offset(d)

\* the local calendar day that contains instant t
LocalDayOf(t) ==
    IF t < Midnight(dstDay) + 2 THEN (t + tz) \div HoursPerDay
    ELSE (t + tz + 1) \div HoursPerDay

\* Date.prototype.toISOString().split('T')[0]: the UTC calendar day of instant t
UtcDayOf(t) == t \div HoursPerDay

\* new Date("YYYY-MM-DD"): a date-only string is read as UTC midnight
ParseIsoUtc(day) == HoursPerDay * day

\* Date.prototype.setHours(0, 0, 0, 0)
SetHoursZero(t) == Midnight(LocalDayOf(t))

legacy_todayMidnight == Midnight(today)

----------------------------------------------------------------------------
(* Legacy variant: state and core logic (src/app.js 1094-1426) *)

legacy_defaultState ==
    [ topTotal |-> DefaultTopTotal,
      bottomTotal |-> DefaultBottomTotal,
      topDone |-> InitialDone,
      bottomDone |-> InitialDone,
      intervalDays |-> DefaultIntervalDays,
      installDate |-> Null,
      lastTurnDate |-> Null,
      lastTopTurnDate |-> Null,
      lastBottomTurnDate |-> Null,
      logTogether |-> TRUE,
      history |-> defaultHistory ]

\* legacy dateToISOString(date): local midnight of the date, printed in UTC
legacy_dateToISOString(t) == UtcDayOf(SetHoursZero(t))

\* legacy daysBetween(a, b) on two instants
legacy_daysBetween(a, b) == (SetHoursZero(b) - SetHoursZero(a)) \div HoursPerDay

Result(can, why, remaining) ==
    [canLog |-> can, reason |-> why, daysRemaining |-> remaining]

\* the interval check shared by the three branches of canLogTurn
IntervalGate(s, lastDate) ==
    IF lastDate = Null THEN Result(TRUE, "none", Null)
    ELSE LET lastTurn == SetHoursZero(ParseIsoUtc(Val(lastDate)))
             daysSince == legacy_daysBetween(lastTurn, legacy_todayMidnight)
         IN  IF daysSince < s.intervalDays
             THEN Result(FALSE, "wait", Some(s.intervalDays - daysSince))
             ELSE Result(TRUE, "none", Null)

\* the completion test taken one turn too late
canLogTurnSingleLate(s, arch) ==
    LET isTop == arch = "top"
        done == IF isTop THEN s.topDone ELSE s.bottomDone
        total == IF isTop THEN s.topTotal ELSE s.bottomTotal
        lastDate == IF isTop THEN s.lastTopTurnDate ELSE s.lastBottomTurnDate
    IN  IF done > total THEN Result(FALSE, "complete", Null)
        ELSE IntervalGate(s, lastDate)

legacy_canLogTurnSingle(s, arch) ==
    LET isTop == arch = "top"
        done == IF isTop THEN s.topDone ELSE s.bottomDone
        total == IF isTop THEN s.topTotal ELSE s.bottomTotal
        lastDate == IF isTop THEN s.lastTopTurnDate ELSE s.lastBottomTurnDate
    IN  IF done >= total THEN Result(FALSE, "complete", Null)
        ELSE IntervalGate(s, lastDate)

\* the separate mode asking for both tracks instead of either
canLogTurnBothNeeded(s, arch) ==
    IF arch = "both"
    THEN IF s.topDone >= s.topTotal /\ s.bottomDone >= s.bottomTotal
         THEN Result(FALSE, "complete", Null)
         ELSE IF s.logTogether
              THEN IntervalGate(s, s.lastTurnDate)
              ELSE LET topCan == legacy_canLogTurnSingle(s, "top")
                       bottomCan == legacy_canLogTurnSingle(s, "bottom")
                   IN  IF ~topCan.canLog \/ ~bottomCan.canLog
                       THEN (IF topCan.canLog THEN bottomCan ELSE topCan)
                       ELSE Result(TRUE, "none", Null)
    ELSE legacy_canLogTurnSingle(s, arch)

legacy_canLogTurn(s, arch) ==
    IF arch = "both"
    THEN IF s.topDone >= s.topTotal /\ s.bottomDone >= s.bottomTotal
         THEN Result(FALSE, "complete", Null)
         ELSE IF s.logTogether
              THEN IntervalGate(s, s.lastTurnDate)
              ELSE LET topCan == legacy_canLogTurnSingle(s, "top")
                       bottomCan == legacy_canLogTurnSingle(s, "bottom")
                   IN  IF ~topCan.canLog /\ ~bottomCan.canLog THEN topCan
                       ELSE Result(TRUE, "none", Null)
    ELSE legacy_canLogTurnSingle(s, arch)

legacy_getStatusSingle(s, arch) ==
    LET isTop == arch = "top"
        done == IF isTop THEN s.topDone ELSE s.bottomDone
        total == IF isTop THEN s.topTotal ELSE s.bottomTotal
        can == legacy_canLogTurn(s, arch)
    IN  IF done >= total THEN "complete"
        ELSE IF ~can.canLog THEN can.reason
        ELSE "ready"

legacy_getStatus(s, arch) ==
    IF arch = "both"
    THEN LET topStatus == legacy_getStatusSingle(s, "top")
             bottomStatus == legacy_getStatusSingle(s, "bottom")
             can == legacy_canLogTurn(s, "both")
         IN  IF topStatus = "complete" /\ bottomStatus = "complete" THEN "complete"
             ELSE IF topStatus = "complete" THEN bottomStatus
             ELSE IF bottomStatus = "complete" THEN topStatus
             ELSE IF ~can.canLog
                  THEN (IF can.reason = "complete" THEN "complete" ELSE "wait")
                  ELSE "ready"
    ELSE legacy_getStatusSingle(s, arch)

\* logTurn up to and including history.unshift: the array is changed in place
legacy_logTurnUnshift(s, arch) ==
    LET date == legacy_dateToISOString(legacy_todayMidnight)
        top == arch \in {"both", "top"} /\ s.topDone < s.topTotal
        bottom == arch \in {"both", "bottom"} /\ s.bottomDone < s.bottomTotal
        topDone == IF top THEN s.topDone + 1 ELSE s.topDone
        bottomDone == IF bottom THEN s.bottomDone + 1 ELSE s.bottomDone
        historyEntry == [ timestamp |-> today,
                          date |-> date,
                          topDoneAfter |-> topDone,
                          bottomDoneAfter |-> bottomDone ]
    IN  [ s EXCEPT
            !.topDone = topDone,
            !.lastTopTurnDate = IF top THEN Some(date) ELSE @,
            !.bottomDone = bottomDone,
            !.lastBottomTurnDate = IF bottom THEN Some(date) ELSE @,
            !.lastTurnDate = IF arch = "both" \/ s.logTogether THEN Some(date) ELSE @,
            !.history = <<historyEntry>> \o @ ]

\* "Keep only last 50 entries": slice makes a new array
legacy_logTurnCap(s) ==
    IF Len(s.history) > HistoryCap
    THEN [s EXCEPT !.history = SubSeq(@, 1, HistoryCap)]
    ELSE s

legacy_logTurn(s, arch) == legacy_logTurnCap(legacy_logTurnUnshift(s, arch))

\* history.find(e => e.date === date)?.field || 0
FindAfter(h, date, field) ==
    LET hits == {i \in 1..Len(h) : h[i].date = date}
    IN  IF hits = {} THEN 0
        ELSE h[CHOOSE i \in hits : \A j \in hits : i <= j][field]

\* the loop of undoLastLog over the remaining entries, newest first
RECURSIVE ScanLastDate(_, _, _, _)
ScanLastDate(h, i, last, field) ==
    IF i > Len(h) THEN last
    ELSE LET threshold == IF last # Null THEN FindAfter(h, Val(last), field) ELSE 0
         IN  Val({ ScanLastDate(h, i + 1, next, field) :
                     next \in { IF h[i][field] > threshold THEN Some(h[i].date)
                                ELSE last } })

undoLastLog(s) ==
    LET h == Tail(s.history)
    IN  IF Len(h) > 0
        THEN [ s EXCEPT
                 !.history = h,
                 !.topDone = h[1].topDoneAfter,
                 !.bottomDone = h[1].bottomDoneAfter,
                 !.lastTopTurnDate = ScanLastDate(h, 1, Null, "topDoneAfter"),
                 !.lastBottomTurnDate = ScanLastDate(h, 1, Null, "bottomDoneAfter"),
                 !.lastTurnDate = Some(h[Len(h)].date) ]
        ELSE [ s EXCEPT
                 !.history = h,
                 !.topDone = InitialDone,
                 !.bottomDone = InitialDone,
                 !.lastTurnDate = Null,
                 !.lastTopTurnDate = Null,
                 !.lastBottomTurnDate = Null ]

\* undoLastLog that saves before it looks at the history
undoLastLogAlwaysSaves(s) ==
    IF Len(s.history) = 0
    THEN [ returned |-> FALSE, state |-> s, saves |-> 1 ]
    ELSE [ returned |-> TRUE, state |-> undoLastLog(s), saves |-> 1 ]

\* undoLastLog(): the whole function, with its early return on an empty
\* history; saves counts its calls of saveState()
legacy_undoLastLogCall(s) ==
    IF Len(s.history) = 0
    THEN [ returned |-> FALSE, state |-> s, saves |-> 0 ]
    ELSE [ returned |-> TRUE, state |-> undoLastLog(s), saves |-> 1 ]

\* render: which log buttons the page offers
LogTogetherButton(s) == legacy_getStatus(s, "both") # "complete" /\ s.logTogether

LogArchButton(s, arch) ==
    /\ legacy_getStatus(s, "both") # "complete"
    /\ ~s.logTogether
    /\ legacy_canLogTurn(s, arch).canLog
    /\ (IF arch = "top" THEN s.topDone < s.topTotal ELSE s.bottomDone < s.bottomTotal)

----------------------------------------------------------------------------
(* Legacy variant: handlers (src/app.js 1116-1146, 1536-1766) *)

Outcome(op, failed, threw, mutated, rendered) ==
    [ op |-> op, saveFailed |-> failed, threw |-> threw,
      mutated |-> mutated, rendered |-> rendered ]

\* saveState: setItem may throw (quota, storage disabled); the error is caught
saveState(fail) ==
    /\ fail => used.failures < MaxFailures
    /\ stored' = IF fail THEN stored ELSE Some(state')

Spend(edit, fail) ==
    [ edits |-> used.edits + (IF edit THEN 1 ELSE 0),
      failures |-> used.failures + (IF fail THEN 1 ELSE 0) ]

\* a handler that mutates state, calls saveState() and then render()
SaveAndRender(op, s2, fail) ==
    /\ state' = s2
    /\ saveState(fail)
    /\ outcome' = Outcome(op, fail, FALSE, s2 # state, TRUE)
    /\ used' = Spend(op = "settings", fail)

AdvanceDay ==
    /\ today < MaxDay
    /\ today' = today + 1
    /\ UNCHANGED <<tz, dstDay, weekday0, device2, server, legacyVars, apiVars,
                   outcome, used>>

\* logTopBtn.onclick / logBottomBtn.onclick
LogArchBtn(arch, fail) ==
    /\ LogArchButton(state, arch)
    /\ Len(state.history) < MaxHistory
    /\ legacy_canLogTurn(state, arch).canLog
    /\ SaveAndRender("log", legacy_logTurn(state, arch), fail)
    /\ defaultHistory' = IF aliased THEN legacy_logTurnUnshift(state, arch).history
                         ELSE defaultHistory
    /\ aliased' = (aliased /\ Len(legacy_logTurnUnshift(state, arch).history) <= HistoryCap)
    /\ UNCHANGED <<envVars, apiVars>>

\* logTurnBtn.onclick opens the note modal; confirmNoteBtn.onclick logs 'both'
ConfirmNoteBtn(fail) ==
    /\ LogTogetherButton(state)
    /\ Len(state.history) < MaxHistory
    /\ legacy_canLogTurn(state, "both").canLog
    /\ SaveAndRender("log", legacy_logTurn(state, "both"), fail)
    /\ defaultHistory' = IF aliased THEN legacy_logTurnUnshift(state, "both").history
                         ELSE defaultHistory
    /\ aliased' = (aliased /\ Len(legacy_logTurnUnshift(state, "both").history) <= HistoryCap)
    /\ UNCHANGED <<envVars, apiVars>>

\* undoBtn.onclick: history.shift() changes the array in place
UndoBtn(fail) ==
    /\ Len(state.history) > 0
    /\ SaveAndRender("undo", undoLastLog(state), fail)
    /\ defaultHistory' = IF aliased THEN Tail(state.history) ELSE defaultHistory
    /\ UNCHANGED <<aliased, envVars, apiVars>>

\* logTopBtn.onclick / logBottomBtn.onclick on a page whose history is long
LongLogArchBtn(arch) ==
    /\ LogArchButton(state, arch)
    /\ legacy_canLogTurn(state, arch).canLog
    /\ SaveAndRender("log", legacy_logTurn(state, arch), FALSE)
    /\ defaultHistory' = IF aliased THEN legacy_logTurnUnshift(state, arch).history
                         ELSE defaultHistory
    /\ aliased' = (aliased /\ Len(legacy_logTurnUnshift(state, arch).history) <= HistoryCap)
    /\ UNCHANGED <<envVars, apiVars>>

\* settingsLogTogether.onchange
SetLogTogether(fail) ==
    /\ SaveAndRender("toggle", [state EXCEPT !.logTogether = ~@], fail)
    /\ UNCHANGED <<defaultHistory, aliased, envVars, apiVars>>

\* settingsIntervalDays.onchange
SetIntervalDays(v, fail) ==
    /\ used.edits < MaxEdits
    /\ SaveAndRender("settings",
            [state EXCEPT !.intervalDays =
                Max2(1, IF v = 0 THEN DefaultIntervalDays ELSE v)], fail)
    /\ UNCHANGED <<defaultHistory, aliased, envVars, apiVars>>

\* settingsTopTotal.onchange / settingsBottomTotal.onchange
SetTotal(arch, v, fail) ==
    /\ used.edits < MaxEdits
    /\ LET newTotal == Max2(1, IF v # 0 THEN v
                               ELSE IF arch = "top" THEN DefaultTopTotal
                               ELSE DefaultBottomTotal)
       IN  SaveAndRender("settings",
                IF arch = "top"
                THEN [state EXCEPT !.topTotal = newTotal,
                                   !.topDone = IF @ > newTotal THEN newTotal ELSE @]
                ELSE [state EXCEPT !.bottomTotal = newTotal,
                                   !.bottomDone = IF @ > newTotal THEN newTotal ELSE @],
                fail)
    /\ UNCHANGED <<defaultHistory, aliased, envVars, apiVars>>

\* settingsTopDone.onchange / settingsBottomDone.onchange
SetDone(arch, v, fail) ==
    /\ used.edits < MaxEdits
    /\ LET typed == IF v = 0 THEN 1 ELSE v
       IN  SaveAndRender("settings",
                IF arch = "top"
                THEN [state EXCEPT !.topDone = Max2(0, Min2(typed, state.topTotal))]
                ELSE [state EXCEPT !.bottomDone = Max2(0, Min2(typed, state.bottomTotal))],
                fail)
    /\ UNCHANGED <<defaultHistory, aliased, envVars, apiVars>>

\* confirmResetBtn.onclick: state = { ...defaultState } is a shallow copy
ConfirmResetBtn(fail) ==
    /\ SaveAndRender("reset", legacy_defaultState, fail)
    /\ aliased' = TRUE
    /\ UNCHANGED <<defaultHistory, envVars, apiVars>>

\* the page is opened again: the script runs afresh, then loadState(); render()
ReloadPage ==
    /\ defaultHistory' = <<>>
    /\ IF stored # Null
       THEN state' = Val(stored) /\ aliased' = FALSE
       ELSE state' = [legacy_defaultState EXCEPT !.history = <<>>] /\ aliased' = TRUE
    /\ outcome' = Outcome("load", FALSE, FALSE, FALSE, TRUE)
    /\ UNCHANGED <<stored, used, envVars, apiVars>>

----------------------------------------------------------------------------
(* API variant: state and core logic (src/app.js 101-398) *)

Arches == {"top", "bottom"}

api_defaultSettings ==
    [ topTotal |-> DefaultTopTotal,
      bottomTotal |-> DefaultBottomTotal,
      installDate |-> Null,
      scheduleType |-> "every_n_days",
      intervalDays |-> DefaultIntervalDays ]

\* parseLocalDate("YYYY-MM-DD"): new Date(year, month, day), local midnight
parseLocalDate(day) == Midnight(day)

\* dateToISOString(date): the local year, month and day of the instant
api_dateToISOString(t) == LocalDayOf(SetHoursZero(t))

\* addDays(date, days): setDate(getDate() + days) keeps the local time of day
addDays(t, days) == Midnight(LocalDayOf(t) + days) + (t - SetHoursZero(t))

api_daysBetween(a, b) == (SetHoursZero(b) - SetHoursZero(a)) \div HoursPerDay

\* Date.prototype.getDay() of a local day: 0 is Sunday
getDay(day) == (day + weekday0) % 7

\* the week start computed without the Sunday case
getWeekStartNoSunday(t) ==
    LET d == LocalDayOf(t)
        day == getDay(d)
        diff == d - day + 1
    IN  Midnight(diff) + (t - SetHoursZero(t))

\* getWeekStart(date): the Monday on or before the date
getWeekStart(t) ==
    LET d == LocalDayOf(t)
        day == getDay(d)
        diff == d - day + (IF day = 0 THEN 0 - 6 ELSE 1)
    IN  Midnight(diff) + (t - SetHoursZero(t))

\* the week taken to end on the Monday after
getTurnsEightDays(s, arch) ==
    LET weekStart == getWeekStart(Midnight(today))
        weekEnd == addDays(weekStart, 7)
    IN  Cardinality({ i \in 1..Len(s.turns) :
            /\ s.turns[i].arch = arch
            /\ parseLocalDate(s.turns[i].date) >= weekStart
            /\ parseLocalDate(s.turns[i].date) <= weekEnd })

getTurnsThisWeek(s, arch) ==
    LET weekStart == getWeekStart(Midnight(today))
        weekEnd == addDays(weekStart, 6)
    IN  Cardinality({ i \in 1..Len(s.turns) :
            /\ s.turns[i].arch = arch
            /\ parseLocalDate(s.turns[i].date) >= weekStart
            /\ parseLocalDate(s.turns[i].date) <= weekEnd })

INSTALL_TURN == 1
WeeklyCap == 2

api_canLogTurn(s, arch) ==
    LET isTop == arch = "top"
        logged == IF isTop THEN s.counts.topDone ELSE s.counts.bottomDone
        done == logged + INSTALL_TURN
        total == IF isTop THEN s.settings.topTotal ELSE s.settings.bottomTotal
        lastDate == IF isTop THEN s.lastDates.top ELSE s.lastDates.bottom
    IN  IF done >= total THEN Result(FALSE, "complete", Null)
        ELSE IF s.settings.scheduleType = "twice_per_week"
        THEN IF getTurnsThisWeek(s, arch) >= WeeklyCap
             THEN Result(FALSE, "wait", Null)
             ELSE Result(TRUE, "none", Null)
        ELSE IF lastDate = Null THEN Result(TRUE, "none", Null)
        ELSE LET lastTurn == SetHoursZero(parseLocalDate(Val(lastDate)))
                 daysSince == api_daysBetween(lastTurn, Midnight(today))
             IN  IF daysSince < s.settings.intervalDays
                 THEN Result(FALSE, "wait", Some(s.settings.intervalDays - daysSince))
                 ELSE Result(TRUE, "none", Null)

\* the status taken from the completion test alone
getStatusNoWait(s, arch) ==
    LET isTop == arch = "top"
        done == (IF isTop THEN s.counts.topDone ELSE s.counts.bottomDone) + INSTALL_TURN
        total == IF isTop THEN s.settings.topTotal ELSE s.settings.bottomTotal
    IN  IF done >= total THEN "complete" ELSE "ready"

api_getStatus(s, arch) ==
    LET isTop == arch = "top"
        done == (IF isTop THEN s.counts.topDone ELSE s.counts.bottomDone) + INSTALL_TURN
        total == IF isTop THEN s.settings.topTotal ELSE s.settings.bottomTotal
        can == api_canLogTurn(s, arch)
    IN  IF done >= total THEN "complete"
        ELSE IF ~can.canLog THEN can.reason
        ELSE "ready"

\* getNextDueDate(arch): a Date (an instant) or null
api_getNextDueDate(s, arch) ==
    LET isTop == arch = "top"
        logged == IF isTop THEN s.counts.topDone ELSE s.counts.bottomDone
        done == logged + INSTALL_TURN
        total == IF isTop THEN s.settings.topTotal ELSE s.settings.bottomTotal
        lastDate == IF isTop THEN s.lastDates.top ELSE s.lastDates.bottom
    IN  IF done >= total THEN Null
        ELSE IF s.settings.scheduleType = "twice_per_week"
        THEN IF getTurnsThisWeek(s, arch) < WeeklyCap
             THEN Some(Midnight(today))
             ELSE Some(addDays(getWeekStart(Midnight(today)), 7))
        ELSE IF lastDate = Null
        THEN IF s.settings.installDate # Null
             THEN Some(addDays(parseLocalDate(Val(s.settings.installDate)),
                               s.settings.intervalDays))
             ELSE Null
        ELSE Some(addDays(parseLocalDate(Val(lastDate)), s.settings.intervalDays))

\* legacy getNextDueDate for one arch; the legacy addDays is the same function
legacy_getNextDueDateSingle(s, arch) ==
    LET isTop == arch = "top"
        done == IF isTop THEN s.topDone ELSE s.bottomDone
        total == IF isTop THEN s.topTotal ELSE s.bottomTotal
        lastDate == IF isTop THEN s.lastTopTurnDate ELSE s.lastBottomTurnDate
    IN  IF done >= total THEN Null
        ELSE IF lastDate = Null
        THEN IF s.installDate # Null
             THEN Some(addDays(ParseIsoUtc(Val(s.installDate)), s.intervalDays))
             ELSE Null
        ELSE Some(addDays(ParseIsoUtc(Val(lastDate)), s.intervalDays))

legacy_getNextDueDate(s, arch) ==
    IF arch = "both"
    THEN IF s.logTogether
         THEN IF s.lastTurnDate = Null
              THEN IF s.installDate # Null
                   THEN Some(addDays(ParseIsoUtc(Val(s.installDate)), s.intervalDays))
                   ELSE Null
              ELSE Some(addDays(ParseIsoUtc(Val(s.lastTurnDate)), s.intervalDays))
         ELSE LET topNext == legacy_getNextDueDateSingle(s, "top")
                  bottomNext == legacy_getNextDueDateSingle(s, "bottom")
              IN  IF topNext = Null THEN bottomNext
                  ELSE IF bottomNext = Null THEN topNext
                  ELSE IF Val(topNext) < Val(bottomNext) THEN topNext
                  ELSE bottomNext
    ELSE legacy_getNextDueDateSingle(s, arch)

\* render: overallStatus from the two per-track statuses
overallStatus(topStatus, bottomStatus) ==
    IF topStatus = "complete" /\ bottomStatus = "complete" THEN "complete"
    ELSE IF topStatus = "ready" \/ bottomStatus = "ready" THEN "ready"
    ELSE "wait"

\* Array.prototype.filter(t => t.arch === arch)
FilterArch(turns, arch) == SelectSeq(turns, LAMBDA t : t.arch = arch)

\* archTurns.reduce((latest, turn) => ..., archTurns[0].date)
RECURSIVE ReduceLatest(_, _, _)
ReduceLatest(archTurns, i, latest) ==
    IF i > Len(archTurns) THEN latest
    ELSE ReduceLatest(archTurns, i + 1,
            IF parseLocalDate(archTurns[i].date) > parseLocalDate(latest)
            THEN archTurns[i].date ELSE latest)

LastDateOf(archTurns) ==
    IF Len(archTurns) > 0 THEN Some(ReduceLatest(archTurns, 1, archTurns[1].date))
    ELSE Null

\* the top count taken over the whole list
loadDataCountsAll(settings, turns) ==
    [ settings |-> settings,
      turns |-> turns,
      counts |-> [ topDone |-> Len(turns),
                   bottomDone |-> Len(FilterArch(turns, "bottom")) ],
      lastDates |-> [ top |-> LastDateOf(FilterArch(turns, "top")),
                      bottom |-> LastDateOf(FilterArch(turns, "bottom")) ] ]

\* loadData when the three GETs succeed: the state built from their answers
loadDataOk(settings, turns) ==
    [ settings |-> settings,
      turns |-> turns,
      counts |-> [ topDone |-> Len(FilterArch(turns, "top")),
                   bottomDone |-> Len(FilterArch(turns, "bottom")) ],
      lastDates |-> [ top |-> LastDateOf(FilterArch(turns, "top")),
                      bottom |-> LastDateOf(FilterArch(turns, "bottom")) ] ]

\* loadData's catch: state = { ...defaultState }, a shallow copy whose counts and
\* lastDates are the objects the previous loads wrote into
loadDataFailed(s) ==
    [ settings |-> defaultSettings,
      turns |-> <<>>,
      counts |-> s.counts,
      lastDates |-> s.lastDates ]

----------------------------------------------------------------------------
(* The server: /api/turns and /api/settings over the user's rows *)

\* POST /api/turns: the rows the insert would add; id stands for gen_random_uuid()
turnsToInsert(arch) ==
    { [ id |-> 2 * dbClock + (IF a = "top" THEN 0 ELSE 1),
        date |-> api_dateToISOString(Midnight(today)),
        arch |-> a,
        createdAt |-> dbClock ] : a \in (IF arch = "both" THEN Arches ELSE {arch}) }

\* UNIQUE(user_id, date, arch): error 23505, answered 409
UniqueViolation(rows, new) ==
    \E r \in rows, n \in new : r.date = n.date /\ r.arch = n.arch

\* GET /api/turns: order by date descending, then created_at descending; rows
\* that tie come in either order
OrderedBefore(a, b) ==
    a.date > b.date \/ (a.date = b.date /\ a.createdAt >= b.createdAt)

RECURSIVE getTurns(_)
getTurns(rows) ==
    IF rows = {} THEN { <<>> }
    ELSE LET first == { r \in rows : \A o \in rows : OrderedBefore(r, o) }
         IN  UNION { { <<r>> \o q : q \in getTurns(rows \ {r}) } : r \in first }

\* GET /api/settings merged over the defaults: { ...defaultState.settings, ...settings }
getSettings(row) == row

\* DELETE /api/turns?id=: deleting an id that is not there succeeds
deleteTurn(rows, id) == { r \in rows : r.id # id }

----------------------------------------------------------------------------
(* Migration of a legacy history into the turns table                      *)
(* (src/supabase/migration.sql); history[1] is the newest entry, and the   *)
(* entry joined as prev_entry is the one at idx + 1                        *)

\* Step 2: the CASE that computes the arch column of entry idx (null: no arch)
migrationArch(h, idx) ==
    LET entry == h[idx]
    IN  IF idx = Len(h)
        THEN IF /\ entry.topDoneAfter > entry.topDoneAfter - 1
                /\ entry.bottomDoneAfter > entry.bottomDoneAfter - 1
             THEN Some("top")
             ELSE IF entry.topDoneAfter > entry.topDoneAfter - 1 THEN Some("top")
             ELSE IF entry.bottomDoneAfter > entry.bottomDoneAfter - 1 THEN Some("bottom")
             ELSE Null
        ELSE LET prev_entry == h[idx + 1]
             IN  IF /\ entry.topDoneAfter > prev_entry.topDoneAfter
                    /\ entry.bottomDoneAfter > prev_entry.bottomDoneAfter
                 THEN Some("top")
                 ELSE IF entry.topDoneAfter > prev_entry.topDoneAfter THEN Some("top")
                 ELSE IF entry.bottomDoneAfter > prev_entry.bottomDoneAfter
                 THEN Some("bottom")
                 ELSE Null

\* a row of the turns table made from entry idx
migratedRow(h, idx, arch) ==
    [ id |-> 2 * idx + (IF arch = "top" THEN 0 ELSE 1),
      date |-> h[idx].date,
      arch |-> arch,
      createdAt |-> h[idx].timestamp ]

\* Step 2: one INSERT of one row per entry into the empty table; a null arch
\* (NOT NULL) or two rows of one date and arch (UNIQUE) fail the statement
migrationStep2(h) ==
    LET idxs == 1 .. Len(h)
        failed == \/ \E i \in idxs : migrationArch(h, i) = Null
                  \/ \E i, j \in idxs :
                        /\ i # j
                        /\ h[i].date = h[j].date
                        /\ migrationArch(h, i) = migrationArch(h, j)
    IN  [ failed |-> failed,
          rows |-> IF failed THEN {}
                   ELSE { migratedRow(h, i, Val(migrationArch(h, i))) : i \in idxs } ]

\* Step 3: the WHERE clause of both_turns
bothTurns(h) ==
    { idx \in 1 .. Len(h) :
        IF idx = Len(h)
        THEN h[idx].topDoneAfter > 0 /\ h[idx].bottomDoneAfter > 0
        ELSE /\ h[idx].topDoneAfter > h[idx + 1].topDoneAfter
             /\ h[idx].bottomDoneAfter > h[idx + 1].bottomDoneAfter }

\* Step 3: a 'top' and a 'bottom' row per both_turns entry, ON CONFLICT
\* (user_id, date, arch) DO NOTHING: per date and arch one row is kept
migrationStep3(rows, h) ==
    LET new == { migratedRow(h, i, a) : i \in bothTurns(h), a \in {"top", "bottom"} }
        free == { n \in new : ~\E r \in rows : r.date = n.date /\ r.arch = n.arch }
    IN  rows \cup { n \in free : \A o \in free :
                        (o.date = n.date /\ o.arch = n.arch) => n.id <= o.id }

\* the script: Step 2, then Step 3; after a failed Step 2 the client either
\* stops or goes on with Step 3
migration(h, stop) ==
    LET step2 == migrationStep2(h)
    IN  [ failed |-> step2.failed,
          rows |-> IF step2.failed /\ stop THEN {} ELSE migrationStep3(step2.rows, h) ]

----------------------------------------------------------------------------
(* API variant: render and the handlers (src/app.js 436-1017, 1045-1075) *)

\* which request of a handler is rejected: none, its POST or DELETE ("write"),
\* or one of the three GETs that loadData awaits together ("load")
ApiCalls == {"none", "write", "load"}

\* render(): a track's progress card (display = logged + install turn)
renderProgress(s, arch) ==
    LET doneDisplay == (IF arch = "top" THEN s.counts.topDone ELSE s.counts.bottomDone)
                         + INSTALL_TURN
        total == IF arch = "top" THEN s.settings.topTotal ELSE s.settings.bottomTotal
    IN  [ done |-> doneDisplay, total |-> total, remaining |-> Max2(0, total - doneDisplay) ]

\* the buttons render() draws from its consts topCan, bottomCan, topStatus
\* and bottomStatus
drawButtons(s, topCan, bottomCan, topStatus, bottomStatus) ==
    LET bothCanLog == topCan.canLog /\ bottomCan.canLog
        allComplete == topStatus = "complete" /\ bottomStatus = "complete"
    IN  [ visible |-> TRUE,
          logTurnBtn |-> ~allComplete /\ bothCanLog,
          logTopBtn |-> ~allComplete /\ topStatus # "complete" /\ topCan.canLog,
          logBottomBtn |-> ~allComplete /\ bottomStatus # "complete" /\ bottomCan.canLog,
          undoBtn |-> Len(s.turns) > 0,
          undoTurnIds |-> { s.turns[i].id : i \in 1..Len(s.turns) } ]

\* the part of render() that decides which buttons exist; each const is
\* computed once, as in the code
render(s) ==
    Val({ drawButtons(s, c[1], c[2], c[3], c[4]) :
            c \in { << api_canLogTurn(s, "top"), api_canLogTurn(s, "bottom"),
                       api_getStatus(s, "top"), api_getStatus(s, "bottom") >> } })

hiddenPage ==
    [ visible |-> FALSE, logTurnBtn |-> FALSE, logTopBtn |-> FALSE,
      logBottomBtn |-> FALSE, undoBtn |-> FALSE, undoTurnIds |-> {} ]

Failing(fail) == fail # "none" => used.failures < MaxFailures

\* await loadData() as the last step of a handler that then calls render()
LoadAndRender(op, fail) ==
    /\ IF fail = "none"
       THEN /\ \E turns \in getTurns(dbTurns') :
                  appState' = loadDataOk(getSettings(dbSettings'), turns)
            /\ settingsAliased' = FALSE
            /\ dom' = render(appState')
       ELSE /\ appState' = loadDataFailed(appState)
            /\ settingsAliased' = TRUE
            /\ dom' = dom
    /\ outcome' = Outcome(op, fail # "none", fail # "none",
                          appState' # appState, fail = "none")

\* a handler whose first request is rejected: nothing else runs
Rejected(op) ==
    /\ outcome' = Outcome(op, TRUE, TRUE, FALSE, FALSE)
    /\ UNCHANGED <<appState, settingsAliased, dom, dbTurns, dbSettings, dbClock>>

\* init() with a token, or the login button: a fresh script, then loadData()
OpenPage(fail) ==
    /\ fail \in {"none", "load"}
    /\ Failing(fail)
    /\ defaultSettings' = api_defaultSettings
    /\ IF fail = "none"
       THEN /\ \E turns \in getTurns(dbTurns) :
                  appState' = loadDataOk(getSettings(dbSettings), turns)
            /\ settingsAliased' = FALSE
            /\ dom' = render(appState')
       ELSE /\ appState' = loadDataOk(api_defaultSettings, <<>>)
            /\ settingsAliased' = TRUE
            /\ dom' = hiddenPage
    /\ outcome' = Outcome("load", fail # "none", fail # "none",
                          appState' # loadDataOk(api_defaultSettings, <<>>),
                          fail = "none")
    /\ used' = Spend(FALSE, fail # "none")
    /\ UNCHANGED <<dbTurns, dbSettings, dbClock, envVars, legacyVars>>

\* confirmNoteBtn.onclick after one of the three log buttons opened the modal
api_ConfirmNoteBtn(arch, fail) ==
    /\ \/ arch = "both" /\ dom.logTurnBtn
       \/ arch = "top" /\ dom.logTopBtn
       \/ arch = "bottom" /\ dom.logBottomBtn
    /\ dbClock < MaxPosts
    /\ Failing(fail)
    /\ IF fail = "write" \/ UniqueViolation(dbTurns, turnsToInsert(arch))
       THEN Rejected("log")
       ELSE /\ dbTurns' = dbTurns \cup turnsToInsert(arch)
            /\ dbClock' = dbClock + 1
            /\ dbSettings' = dbSettings
            /\ LoadAndRender("log", fail)
    /\ used' = Spend(FALSE, fail # "none")
    /\ UNCHANGED <<defaultSettings, envVars, legacyVars>>

\* undoTurn(turnId): DELETE, then loadData()
undoTurnHandler(id, fail) ==
    /\ Failing(fail)
    /\ IF fail = "write"
       THEN Rejected("undo")
       ELSE /\ dbTurns' = deleteTurn(dbTurns, id)
            /\ UNCHANGED <<dbClock, dbSettings>>
            /\ LoadAndRender("undo", fail)
    /\ used' = Spend(FALSE, fail # "none")
    /\ UNCHANGED <<defaultSettings, envVars, legacyVars>>

\* a history row's undo button
api_UndoTurnBtn(id, fail) ==
    /\ id \in dom.undoTurnIds
    /\ undoTurnHandler(id, fail)

\* undo-last taking the other end of the list
undoOldestBtn(fail) ==
    /\ dom.undoBtn
    /\ Len(appState.turns) > 0
    /\ undoTurnHandler(appState.turns[Len(appState.turns)].id, fail)

\* undoBtn.onclick: the most recent turn is state.turns[0]
api_UndoBtn(fail) ==
    /\ dom.undoBtn
    /\ Len(appState.turns) > 0
    /\ undoTurnHandler(appState.turns[1].id, fail)

\* confirmResetBtn.onclick: one DELETE for each of state.turns, a rejected one
\* is logged and skipped; then loadData() and render(). No request writes the
\* settings.
api_ConfirmResetBtn(fail) ==
    /\ dom.visible
    /\ Failing(fail)
    /\ fail = "write" => Len(appState.turns) > 0
    /\ LET ids == { appState.turns[i].id : i \in 1..Len(appState.turns) }
       IN  \E rejected \in (IF fail = "write" THEN { {id} : id \in ids } ELSE { {} }) :
               dbTurns' = { r \in dbTurns : r.id \notin ids \ rejected }
    /\ UNCHANGED <<dbClock, dbSettings>>
    /\ LoadAndRender("reset", IF fail = "load" THEN "load" ELSE "none")
    /\ used' = Spend(FALSE, fail # "none")
    /\ UNCHANGED <<defaultSettings, envVars, legacyVars>>

\* PUT /api/settings: the row written from the request body
dataToSave(settings) ==
    [ topTotal |-> settings.topTotal,
      bottomTotal |-> settings.bottomTotal,
      installDate |-> settings.installDate,
      scheduleType |-> settings.scheduleType,
      intervalDays |-> IF settings.intervalDays = 0 THEN DefaultIntervalDays
                       ELSE settings.intervalDays ]

\* a settings field's onchange: write state.settings in place, await
\* saveSettings(), then render(); a rejected PUT leaves the handler before render
SettingsChange(settings2, fail) ==
    /\ dom.visible
    /\ used.edits < MaxEdits
    /\ fail \in {"none", "write"}
    /\ Failing(fail)
    /\ appState' = [appState EXCEPT !.settings = settings2]
    /\ defaultSettings' = IF settingsAliased THEN settings2 ELSE defaultSettings
    /\ IF fail = "none"
       THEN dbSettings' = dataToSave(settings2) /\ dom' = render(appState')
       ELSE dbSettings' = dbSettings /\ dom' = dom
    /\ outcome' = Outcome("settings", fail # "none", fail # "none",
                          appState' # appState, fail = "none")
    /\ used' = Spend(TRUE, fail # "none")
    /\ UNCHANGED <<settingsAliased, dbTurns, dbClock, envVars, legacyVars>>

\* settingsTopTotal.onchange / settingsBottomTotal.onchange
api_SetTotal(arch, v, fail) ==
    SettingsChange(
        IF arch = "top"
        THEN [appState.settings EXCEPT
                !.topTotal = Max2(1, IF v = 0 THEN DefaultTopTotal ELSE v)]
        ELSE [appState.settings EXCEPT
                !.bottomTotal = Max2(1, IF v = 0 THEN DefaultBottomTotal ELSE v)],
        fail)

\* settingsIntervalDays.onchange
api_SetIntervalDays(v, fail) ==
    SettingsChange(
        [appState.settings EXCEPT
            !.intervalDays = Max2(1, IF v = 0 THEN DefaultIntervalDays ELSE v)],
        fail)

\* input[name="scheduleType"].onchange
api_SetScheduleType(type, fail) ==
    SettingsChange([appState.settings EXCEPT !.scheduleType = type], fail)

----------------------------------------------------------------------------
(* canLogTurn called on the state as it stands.  The two variants are      *)
(* alternative scripts: the API one runs behind its login, the legacy one  *)
(* where no API page is shown.                                             *)

Returned(variant, arch, result) ==
    [ op |-> "canLogTurn", variant |-> variant, arch |-> arch, result |-> result ]

\* a canLogTurn that keeps the clamped date it computed in the state
CallCanLogTurnTouching(arch) ==
    /\ ~dom.visible
    /\ outcome' = Returned("legacy", arch, legacy_canLogTurn(state, arch))
    /\ state' = [state EXCEPT !.lastTurnDate = Some(today)]
    /\ UNCHANGED <<envVars, defaultHistory, aliased, stored, apiVars, used>>

CallLegacyCanLogTurn(arch) ==
    /\ ~dom.visible
    /\ outcome' = Returned("legacy", arch, legacy_canLogTurn(state, arch))
    /\ UNCHANGED <<envVars, legacyVars, apiVars, used>>

CallApiCanLogTurn(arch) ==
    /\ dom.visible
    /\ outcome' = Returned("api", arch, api_canLogTurn(appState, arch))
    /\ UNCHANGED <<envVars, legacyVars, apiVars, used>>

\* what a called function returned or a handler did
ReturnedBy(fn, variant, arch, result) ==
    [ op |-> fn, variant |-> variant, arch |-> arch, result |-> result ]

CallLegacyGetNextDueDate(arch) ==
    /\ ~dom.visible
    /\ outcome' = ReturnedBy("getNextDueDate", "legacy", arch,
                              legacy_getNextDueDate(state, arch))
    /\ UNCHANGED <<envVars, legacyVars, apiVars, used>>

CallApiGetNextDueDate(arch) ==
    /\ dom.visible
    /\ outcome' = ReturnedBy("getNextDueDate", "api", arch,
                              api_getNextDueDate(appState, arch))
    /\ UNCHANGED <<envVars, legacyVars, apiVars, used>>

CallLegacyGetStatus(arch) ==
    /\ ~dom.visible
    /\ outcome' = ReturnedBy("getStatus", "legacy", arch, legacy_getStatus(state, arch))
    /\ UNCHANGED <<envVars, legacyVars, apiVars, used>>

CallApiGetStatus(arch) ==
    /\ dom.visible
    /\ outcome' = ReturnedBy("getStatus", "api", arch, api_getStatus(appState, arch))
    /\ UNCHANGED <<envVars, legacyVars, apiVars, used>>

\* undoBtn.onclick (legacy) whatever the history holds: undoLastLog(), and
\* render() when it returned true
CallUndoLastLog(fail) ==
    /\ ~dom.visible
    /\ LET r == legacy_undoLastLogCall(state)
       IN  /\ state' = r.state
           /\ IF r.saves > 0 THEN saveState(fail) ELSE ~fail /\ stored' = stored
           /\ outcome' = ReturnedBy("undoLastLog", "legacy", "both",
                                    [ returned |-> r.returned, saves |-> r.saves,
                                      threw |-> FALSE, rendered |-> r.returned ])
    /\ defaultHistory' = IF aliased THEN state'.history ELSE defaultHistory
    /\ used' = Spend(FALSE, fail)
    /\ UNCHANGED <<aliased, envVars, apiVars>>

\* undoBtn.onclick (API variant) whatever state.turns holds: with an empty list
\* the handler returns at once
api_UndoClick(fail) ==
    /\ dom.undoBtn
    /\ IF Len(appState.turns) = 0
       THEN /\ fail = "none"
            /\ outcome' = ReturnedBy("undoBtn", "api", "both",
                                     [ deletes |-> 0, threw |-> FALSE, rendered |-> FALSE ])
            /\ UNCHANGED <<apiVars, used, envVars, legacyVars>>
       ELSE api_UndoBtn(fail)

\* render (API variant): the two tracks' due dates combined into nextDue,
\* before the comparison with today
api_nextDue(s) ==
    LET topNext == api_getNextDueDate(s, "top")
        bottomNext == api_getNextDueDate(s, "bottom")
    IN  IF topNext # Null /\ bottomNext # Null
        THEN (IF Val(topNext) < Val(bottomNext) THEN topNext ELSE bottomNext)
        ELSE IF topNext # Null THEN topNext ELSE bottomNext

\* render's "Next due" (API variant): the earlier of the two tracks' due dates,
\* shown as today when its day is today or before; the local day formatDate
\* prints, or null where the page prints '-'
api_renderNextDue(s) ==
    LET nextDue == api_nextDue(s)
    IN  IF nextDue = Null THEN Null
        ELSE LET nextDueDay == Midnight(LocalDayOf(Val(nextDue)))
             IN  IF nextDueDay <= Midnight(today) THEN Some(LocalDayOf(Midnight(today)))
                 ELSE Some(LocalDayOf(Val(nextDue)))

\* render's "Next due" (legacy): formatDate(getNextDueDate('both')); the local
\* day toLocaleDateString prints, or null where the page prints 'Never'
legacy_renderNextDue(s) ==
    LET nextDue == legacy_getNextDueDate(s, "both")
    IN  IF nextDue = Null THEN Null ELSE Some(LocalDayOf(Val(nextDue)))

CallApiRenderNextDue ==
    /\ dom.visible
    /\ outcome' = ReturnedBy("renderNextDue", "api", "both", api_renderNextDue(appState))
    /\ UNCHANGED <<envVars, legacyVars, apiVars, used>>

CallLegacyRenderNextDue ==
    /\ ~dom.visible
    /\ outcome' = ReturnedBy("renderNextDue", "legacy", "both", legacy_renderNextDue(state))
    /\ UNCHANGED <<envVars, legacyVars, apiVars, used>>

\* the migration script run once on what the legacy page has saved
Migrate(stop) ==
    /\ stored # Null
    /\ outcome.op # "migration"
    /\ dbTurns = {}
    /\ LET h == Val(stored).history
           r == migration(h, stop)
       IN  /\ dbTurns' = r.rows
           /\ outcome' = ReturnedBy("migration", "legacy", "both",
                                    [ failed |-> r.failed, history |-> h ])
    /\ UNCHANGED <<envVars, legacyVars, appState, defaultSettings, settingsAliased,
                   dom, dbSettings, dbClock, used>>

\* the second device: init() with a token, loadData() and render()
OtherOpenPage ==
    /\ \E turns \in getTurns(dbTurns) :
          LET s == loadDataOk(getSettings(dbSettings), turns)
          IN  device2' = [ appState |-> s, dom |-> render(s) ]
    /\ outcome' = ReturnedBy("load", "api", "both", [device |-> 2, status |-> 200])
    /\ UNCHANGED <<today, tz, dstDay, weekday0, server, legacyVars, apiVars, used>>

\* the second device: confirmNoteBtn.onclick after one of its log buttons
\* opened the modal; logTurn posts, then loadData() and render(); a 409 is
\* alerted and the page stays as it is
OtherConfirmNoteBtn(arch) ==
    /\ \/ arch = "both" /\ device2.dom.logTurnBtn
       \/ arch = "top" /\ device2.dom.logTopBtn
       \/ arch = "bottom" /\ device2.dom.logBottomBtn
    /\ dbClock < MaxPosts
    /\ IF UniqueViolation(dbTurns, turnsToInsert(arch))
       THEN /\ outcome' = ReturnedBy("log", "api", arch, [device |-> 2, status |-> 409])
            /\ UNCHANGED <<device2, dbTurns, dbClock>>
       ELSE /\ dbTurns' = dbTurns \cup turnsToInsert(arch)
            /\ dbClock' = dbClock + 1
            /\ \E turns \in getTurns(dbTurns') :
                  LET s == loadDataOk(getSettings(dbSettings), turns)
                  IN  device2' = [ appState |-> s, dom |-> render(s) ]
            /\ outcome' = ReturnedBy("log", "api", arch, [device |-> 2, status |-> 201])
    /\ UNCHANGED <<today, tz, dstDay, weekday0, server, legacyVars, appState,
                   defaultSettings, settingsAliased, dom, dbSettings, used>>

\* render's status strip: the overall status of the two tracks
CallOverallStatus ==
    /\ dom.visible
    /\ outcome' = ReturnedBy("overallStatus", "api", "both",
                              overallStatus(api_getStatus(appState, "top"),
                                            api_getStatus(appState, "bottom")))
    /\ UNCHANGED <<envVars, legacyVars, apiVars, used>>

----------------------------------------------------------------------------
(* The server's handlers over the rows of every user (src/api/turns.js,    *)
(* src/api/settings.js).  A caller is the user id of the request's token,   *)
(* absent when the token is missing or invalid.  A request body's turns is  *)
(* an array (isArray) of elements whose date and arch may be missing and    *)
(* which may carry a user_id of their own.                                  *)

Users == {"A", "B"}
ServerDates == {0}
BodyArches == {"top", "bottom", "middle"}

Response(op, caller, request, status, body) ==
    [ op |-> op, caller |-> caller, request |-> request, status |-> status,
      body |-> body ]

\* GET that leaves out the user_id filter
getTurnsAnyOwner(rows, caller) ==
    IF caller = Null THEN { [status |-> 401, body |-> <<>>] }
    ELSE { [status |-> 200, body |-> q] : q \in getTurns(rows) }

\* GET /api/turns: the caller's rows, newest first
getTurnsHandler(rows, caller) ==
    IF caller = Null THEN { [status |-> 401, body |-> <<>>] }
    ELSE { [status |-> 200, body |-> q] :
             q \in getTurns({ r \in rows : r.user_id = Val(caller) }) }

\* turns.map(...): user_id comes from the token; id and created_at from the table
serverTurnsToInsert(userId, turns, clock) ==
    { [ id |-> 2 * clock + (i - 1),
        user_id |-> userId,
        date |-> Val(turns[i].date),
        arch |-> Val(turns[i].arch),
        createdAt |-> clock ] : i \in 1..Len(turns) }

\* a turns table without the UNIQUE constraint
NoUniqueConstraint(rows, turns, userId) == FALSE

\* UNIQUE(user_id, date, arch) over the table with the new rows in it
ServerUniqueViolation(rows, turns, userId) ==
    \/ \E r \in rows, i \in 1..Len(turns) :
          r.user_id = userId /\ r.date = Val(turns[i].date) /\ r.arch = Val(turns[i].arch)
    \/ \E i, j \in 1..Len(turns) :
          i # j /\ turns[i].date = turns[j].date /\ turns[i].arch = turns[j].arch

\* POST that checks each element only as it inserts it
postTurnsOneByOne(rows, clock, caller, body) ==
    IF caller = Null THEN [status |-> 401, rows |-> rows]
    ELSE IF ~body.isArray \/ Len(body.turns) = 0 THEN [status |-> 400, rows |-> rows]
    ELSE LET good == { i \in 1..Len(body.turns) :
                         /\ body.turns[i].date # Null
                         /\ body.turns[i].arch # Null
                         /\ Val(body.turns[i].arch) \in {"top", "bottom"} }
             first == IF 1 \in good THEN SubSeq(body.turns, 1, 1) ELSE <<>>
         IN  IF good = 1..Len(body.turns) /\ ~ServerUniqueViolation(rows, body.turns, Val(caller))
             THEN [status |-> 201,
                   rows |-> rows \cup serverTurnsToInsert(Val(caller), body.turns, clock)]
             ELSE IF good = 1..Len(body.turns) THEN [status |-> 409, rows |-> rows]
             ELSE IF ServerUniqueViolation(rows, first, Val(caller))
             THEN [status |-> 400, rows |-> rows]
             ELSE [status |-> 400,
                   rows |-> rows \cup serverTurnsToInsert(Val(caller), first, clock)]

\* POST /api/turns: validation of the whole batch, then one insert statement
postTurns(rows, clock, caller, body) ==
    IF caller = Null THEN [status |-> 401, rows |-> rows]
    ELSE IF ~body.isArray \/ Len(body.turns) = 0 THEN [status |-> 400, rows |-> rows]
    ELSE IF \E i \in 1..Len(body.turns) :
              body.turns[i].date = Null \/ body.turns[i].arch = Null
    THEN [status |-> 400, rows |-> rows]
    ELSE IF \E i \in 1..Len(body.turns) : Val(body.turns[i].arch) \notin {"top", "bottom"}
    THEN [status |-> 400, rows |-> rows]
    ELSE IF ServerUniqueViolation(rows, body.turns, Val(caller))
    THEN [status |-> 409, rows |-> rows]
    ELSE [status |-> 201,
          rows |-> rows \cup serverTurnsToInsert(Val(caller), body.turns, clock)]

\* DELETE that matches the id alone
deleteTurnAnyOwner(rows, caller, id) ==
    IF caller = Null THEN [status |-> 401, rows |-> rows]
    ELSE IF id = Null THEN [status |-> 400, rows |-> rows]
    ELSE [status |-> 200, rows |-> { r \in rows : r.id # Val(id) }]

\* DELETE /api/turns?id=: .eq('id', turnId).eq('user_id', userId)
deleteTurnHandler(rows, caller, id) ==
    IF caller = Null THEN [status |-> 401, rows |-> rows]
    ELSE IF id = Null THEN [status |-> 400, rows |-> rows]
    ELSE [status |-> 200,
          rows |-> { r \in rows : ~(r.id = Val(id) /\ r.user_id = Val(caller)) }]

\* the request bodies a client may send
BodyTurn ==
    [ date : {Null} \cup { Some(d) : d \in ServerDates },
      arch : {Null} \cup { Some(a) : a \in BodyArches },
      user_id : {Null} ]

WellFormed(turn) ==
    turn.date # Null /\ turn.arch # Null /\ Val(turn.arch) \in {"top", "bottom"}

\* no array; an empty one; one element; two elements of which one at least is
\* well formed
PostBodies ==
    { [isArray |-> FALSE, turns |-> <<>>, user_id |-> Null] }
      \cup { [isArray |-> TRUE, turns |-> q, user_id |-> u] :
               q \in {<<>>} \cup { <<a>> : a \in BodyTurn }
                              \cup { <<a, b>> : a \in { x \in BodyTurn : WellFormed(x) },
                                                 b \in BodyTurn }
                              \cup { <<b, a>> : a \in { x \in BodyTurn : WellFormed(x) },
                                                 b \in BodyTurn },
               u \in {Null, Some("B")} }

\* what a caller without a token sends
AnonymousBody ==
    [ isArray |-> TRUE,
      turns |-> << [date |-> Some(0), arch |-> Some("top"), user_id |-> Null] >>,
      user_id |-> Null ]

Callers == {Null} \cup { Some(u) : u \in Users }

\* the client's logTurn(arch, note) up to its request: it throws when the arch
\* names no track
logTurnRequest(arch, date) ==
    LET top == IF arch = "both" \/ arch = "top"
               THEN << [date |-> Some(date), arch |-> Some("top"), user_id |-> Null] >>
               ELSE <<>>
        bottom == IF arch = "both" \/ arch = "bottom"
                  THEN << [date |-> Some(date), arch |-> Some("bottom"), user_id |-> Null] >>
                  ELSE <<>>
        turnsToCreate == top \o bottom
    IN  IF Len(turnsToCreate) = 0
        THEN [threw |-> TRUE, requests |-> 0, body |-> Null]
        ELSE [threw |-> FALSE, requests |-> 1,
              body |-> Some([isArray |-> TRUE, turns |-> turnsToCreate, user_id |-> Null])]

ServerIdle == UNCHANGED <<envVars, legacyVars, appState, defaultSettings,
                          settingsAliased, dom, used>>

ServerGetTurns(caller) ==
    /\ \E resp \in getTurnsHandler(dbTurns, caller) :
          outcome' = Response("GET /api/turns", caller, Null, resp.status, resp.body)
    /\ UNCHANGED <<dbTurns, dbSettings, dbClock>>
    /\ ServerIdle

ServerPostTurns(caller, body) ==
    /\ dbClock < MaxPosts
    /\ LET r == postTurns(dbTurns, dbClock, caller, body)
       IN  /\ dbTurns' = r.rows
           /\ dbClock' = IF r.status = 201 THEN dbClock + 1 ELSE dbClock
           /\ outcome' = Response("POST /api/turns", caller, body, r.status,
                                  r.rows \ dbTurns)
    /\ UNCHANGED dbSettings
    /\ ServerIdle

ServerDeleteTurn(caller, id) ==
    /\ LET r == deleteTurnHandler(dbTurns, caller, id)
       IN  /\ dbTurns' = r.rows
           /\ outcome' = Response("DELETE /api/turns", caller, id, r.status, {})
    /\ UNCHANGED <<dbSettings, dbClock>>
    /\ ServerIdle

\* user A's page calls logTurn(arch, note)
CallLogTurn(arch) ==
    LET req == logTurnRequest(arch, api_dateToISOString(Midnight(today)))
    IN  IF req.threw
        THEN /\ outcome' = Response("logTurn", Some("A"), arch, 0, {})
             /\ UNCHANGED <<dbTurns, dbSettings, dbClock>>
             /\ ServerIdle
        ELSE ServerPostTurns(Some("A"), Val(req.body))

\* PUT /api/settings: the scheduleType check, then the caller's row is updated
\* or inserted with dataToSave; store maps each user to their row, if any
putSettings(store, caller, body) ==
    IF caller = Null THEN [status |-> 401, store |-> store]
    ELSE IF /\ body.scheduleType # Null
            /\ Val(body.scheduleType) \notin {"every_n_days", "twice_per_week"}
    THEN [status |-> 400, store |-> store]
    ELSE [status |-> 200,
          store |-> [store EXCEPT ![Val(caller)] = Some(
              [ topTotal |-> body.topTotal,
                bottomTotal |-> body.bottomTotal,
                installDate |-> body.installDate,
                scheduleType |-> IF body.scheduleType = Null THEN "every_n_days"
                                 ELSE Val(body.scheduleType),
                intervalDays |-> IF body.intervalDays \in {Null, Some(0)}
                                 THEN DefaultIntervalDays
                                 ELSE Val(body.intervalDays) ])]]

\* GET /api/settings: the caller's row, or the defaults when there is none
getSettingsHandler(store, caller) ==
    IF caller = Null THEN [status |-> 401, body |-> Null]
    ELSE IF store[Val(caller)] = Null THEN [status |-> 200, body |-> Some(api_defaultSettings)]
    ELSE [status |-> 200, body |-> store[Val(caller)]]

\* the bodies a client may send; a missing scheduleType or intervalDays is absent
PutBodies ==
    [ topTotal : {0 - 1, MaxInput},
      bottomTotal : {MaxInput},
      installDate : {Null},
      scheduleType : {Null, Some("every_n_days"), Some("twice_per_week"), Some("weekly")},
      intervalDays : {Null} \cup { Some(v) : v \in InputValues } ]

ServerPutSettings(caller, body) ==
    /\ LET r == putSettings(dbSettings, caller, body)
       IN  /\ dbSettings' = r.store
           /\ outcome' = Response("PUT /api/settings", caller, body, r.status, {})
    /\ UNCHANGED <<dbTurns, dbClock>>
    /\ ServerIdle

ServerGetSettings(caller) ==
    /\ LET r == getSettingsHandler(dbSettings, caller)
       IN  outcome' = Response("GET /api/settings", caller, Null, r.status, r.body)
    /\ UNCHANGED <<dbTurns, dbSettings, dbClock>>
    /\ ServerIdle

----------------------------------------------------------------------------
(* /api/login and PUT /api/settings statement by statement                  *)
(* (src/api/login.js 84-124, src/api/settings.js 74-128): each await of a   *)
(* supabase call is one statement on the tables, and the requests of        *)
(* several sessions interleave between them.  Here dbSettings is the set of *)
(* rows of table settings.                                                  *)

MaxRequests == 3
MaxCalls == 5

\* a settings table without UNIQUE on user_id
NoSettingsConstraint(rows, userId) == FALSE

\* settings.user_id UNIQUE
SettingsUniqueViolation(rows, userId) == \E r \in rows : r.user_id = userId

\* PUT /api/settings: dataToSave
serverDataToSave(body) ==
    [ topTotal |-> body.topTotal,
      bottomTotal |-> body.bottomTotal,
      installDate |-> body.installDate,
      scheduleType |-> IF body.scheduleType = Null THEN "every_n_days"
                       ELSE Val(body.scheduleType),
      intervalDays |-> IF body.intervalDays \in {Null, Some(0)}
                       THEN DefaultIntervalDays
                       ELSE Val(body.intervalDays) ]

\* .insert(row): one row more, or error 23505
insertSettings(rows, id, userId, values) ==
    IF SettingsUniqueViolation(rows, userId)
    THEN [error |-> TRUE, rows |-> rows]
    ELSE [error |-> FALSE,
          rows |-> rows \cup { [id |-> id, user_id |-> userId, values |-> values] }]

\* .update(dataToSave).eq('user_id', userId): every row of the user
updateSettings(rows, userId, values) ==
    { IF r.user_id = userId THEN [r EXCEPT !.values = values] ELSE r : r \in rows }

\* the bodies the settings form of a session sends
RaceBodies ==
    { b \in PutBodies : /\ b.topTotal = MaxInput
                        /\ b.scheduleType = Some("every_n_days")
                        /\ b.intervalDays \in {Some(1), Some(MaxInput)} }

RaceIdle == UNCHANGED <<today, tz, dstDay, weekday0, device2, legacyVars, appState,
                        defaultSettings, settingsAliased, dom, dbTurns, used>>

Started(req) ==
    [server EXCEPT !.requests = @ \cup { [id |-> dbClock] @@ req }]

\* login with valid credentials: select from users; a known user gets a token
LoginStart(u) ==
    /\ dbClock < MaxCalls
    /\ Cardinality(server.requests) < MaxRequests
    /\ dbClock' = dbClock + 1
    /\ IF u \in server.users
       THEN /\ server' = [server EXCEPT !.tokens = @ \cup {u}]
            /\ outcome' = Response("POST /api/login", Some(u), Some(dbClock), 200, {})
       ELSE /\ server' = Started([kind |-> "login", user |-> u, pc |-> "insertUser"])
            /\ outcome' = outcome
    /\ UNCHANGED dbSettings
    /\ RaceIdle

\* first login: insert into users (username UNIQUE); an error is answered 500
LoginInsertUser(r) ==
    /\ r.kind = "login" /\ r.pc = "insertUser"
    /\ IF r.user \in server.users
       THEN /\ server' = [server EXCEPT !.requests = @ \ {r}]
            /\ outcome' = Response("POST /api/login", Some(r.user), Some(r.id), 500, {})
       ELSE /\ server' = [server EXCEPT
                            !.users = @ \cup {r.user},
                            !.requests = (@ \ {r}) \cup {[r EXCEPT !.pc = "insertSettings"]}]
            /\ outcome' = outcome
    /\ UNCHANGED <<dbSettings, dbClock>>
    /\ RaceIdle

\* first login: the settings row with the defaults; its result is not looked at
LoginInsertSettings(r) ==
    /\ r.kind = "login" /\ r.pc = "insertSettings"
    /\ dbSettings' = insertSettings(dbSettings, r.id, r.user, api_defaultSettings).rows
    /\ server' = [server EXCEPT !.tokens = @ \cup {r.user}, !.requests = @ \ {r}]
    /\ outcome' = Response("POST /api/login", Some(r.user), Some(r.id), 200, {})
    /\ UNCHANGED dbClock
    /\ RaceIdle

\* PUT /api/settings with a token: the select that looks for the user's row
PutCheck(u, body) ==
    /\ u \in server.tokens
    /\ dbClock < MaxCalls
    /\ Cardinality(server.requests) < MaxRequests
    /\ dbClock' = dbClock + 1
    /\ server' = Started([kind |-> "put", user |-> u, pc |-> "write", body |-> body,
                          existing |-> \E row \in dbSettings : row.user_id = u])
    /\ UNCHANGED <<dbSettings, outcome>>
    /\ RaceIdle

\* PUT /api/settings: update when the select found a row, else insert; 500 on
\* an error, else 200
PutWrite(r) ==
    /\ r.kind = "put" /\ r.pc = "write"
    /\ LET values == serverDataToSave(r.body)
           ins == insertSettings(dbSettings, r.id, r.user, values)
       IN  IF r.existing
           THEN /\ dbSettings' = updateSettings(dbSettings, r.user, values)
                /\ outcome' = Response("PUT /api/settings", Some(r.user), r, 200, {})
           ELSE /\ dbSettings' = ins.rows
                /\ outcome' = Response("PUT /api/settings", Some(r.user), r,
                                       IF ins.error THEN 500 ELSE 200, {})
    /\ server' = [server EXCEPT !.requests = @ \ {r}]
    /\ UNCHANGED dbClock
    /\ RaceIdle

----------------------------------------------------------------------------
(* Specifications *)

\* a device on which the page has not been opened
closedPage == [ appState |-> loadDataOk(api_defaultSettings, <<>>), dom |-> hiddenPage ]

\* a server with empty tables users and settings and no request under way
idleServer == [ users |-> {}, tokens |-> {}, requests |-> {} ]

InitEnv ==
    /\ today = 0
    /\ tz \in TzOffsets
    /\ dstDay \in DstDays
    /\ device2 = closedPage
    /\ server = idleServer

\* the variant that a specification does not run stays as constructed
IdleApi ==
    /\ defaultSettings = api_defaultSettings
    /\ settingsAliased = TRUE
    /\ appState = loadDataOk(api_defaultSettings, <<>>)
    /\ dom = hiddenPage
    /\ dbTurns = {}
    /\ dbSettings = api_defaultSettings
    /\ dbClock = 0

IdleLegacy ==
    /\ defaultHistory = <<>>
    /\ aliased = TRUE
    /\ state = legacy_defaultState
    /\ stored = Null

InitLegacy ==
    /\ InitEnv
    /\ weekday0 = 0
    /\ IdleApi
    /\ IdleLegacy
    /\ outcome = Outcome("load", FALSE, FALSE, FALSE, TRUE)
    /\ used = [edits |-> 0, failures |-> 0]

\* log, undo and the logTogether switch, with every save succeeding
NextLegacyCore ==
    \/ AdvanceDay
    \/ \E arch \in {"top", "bottom"} : LogArchBtn(arch, FALSE)
    \/ ConfirmNoteBtn(FALSE)
    \/ UndoBtn(FALSE)
    \/ SetLogTogether(FALSE)

SpecLegacyCore == InitLegacy /\ [][NextLegacyCore]_vars

\* the core handlers together with the settings form and reset; saves succeed
NextLegacySettings ==
    \/ AdvanceDay
    \/ \E arch \in {"top", "bottom"} : LogArchBtn(arch, FALSE)
    \/ ConfirmNoteBtn(FALSE)
    \/ UndoBtn(FALSE)
    \/ SetLogTogether(FALSE)
    \/ \E v \in InputValues : SetIntervalDays(v, FALSE)
    \/ \E arch \in {"top", "bottom"}, v \in InputValues : SetTotal(arch, v, FALSE)
    \/ \E arch \in {"top", "bottom"}, v \in InputValues : SetDone(arch, v, FALSE)
    \/ ConfirmResetBtn(FALSE)

SpecLegacySettings == InitLegacy /\ [][NextLegacySettings]_vars

\* the core handlers, reset and reopening the page, where saveState may fail
NextLegacyStorage ==
    \/ AdvanceDay
    \/ \E arch \in {"top", "bottom"}, fail \in BOOLEAN : LogArchBtn(arch, fail)
    \/ \E fail \in BOOLEAN : ConfirmNoteBtn(fail)
    \/ \E fail \in BOOLEAN : UndoBtn(fail)
    \/ \E fail \in BOOLEAN : SetLogTogether(fail)
    \/ \E fail \in BOOLEAN : ConfirmResetBtn(fail)
    \/ ReloadPage

SpecLegacyStorage == InitLegacy /\ [][NextLegacyStorage]_vars

\* the API variant reads and writes local dates only: one zone stands for all
InitApi ==
    /\ today = 0
    /\ tz = 0
    /\ dstDay \in DstDays
    /\ device2 = closedPage
    /\ server = idleServer
    /\ weekday0 = 0
    /\ IdleLegacy
    /\ IdleApi
    /\ outcome = Outcome("init", FALSE, FALSE, FALSE, FALSE)
    /\ used = [edits |-> 0, failures |-> 0]

\* opening the page, logging and undoing, where any request may fail
NextApi ==
    \/ AdvanceDay
    \/ \E fail \in ApiCalls : OpenPage(fail)
    \/ \E arch \in {"both", "top", "bottom"}, fail \in ApiCalls :
          api_ConfirmNoteBtn(arch, fail)
    \/ \E id \in dom.undoTurnIds, fail \in ApiCalls : api_UndoTurnBtn(id, fail)
    \/ \E fail \in ApiCalls : api_UndoBtn(fail)

SpecApi == InitApi /\ [][NextApi]_vars

\* opening the page, logging, one edit of the interval and the reset, where any
\* request may fail
NextApiReset ==
    \/ AdvanceDay
    \/ \E fail \in {"none", "load"} : OpenPage(fail)
    \/ \E arch \in {"both", "top", "bottom"}, fail \in ApiCalls :
          api_ConfirmNoteBtn(arch, fail)
    \/ \E v \in InputValues, fail \in {"none", "write"} : api_SetIntervalDays(v, fail)
    \/ \E fail \in ApiCalls : api_ConfirmResetBtn(fail)

SpecApiReset == InitApi /\ [][NextApiReset]_vars

\* logging together and the undo button in either script, also where there is
\* nothing to undo; any save or request may fail
NextUndoCalls ==
    \/ AdvanceDay
    \/ ~dom.visible /\ ConfirmNoteBtn(FALSE)
    \/ \E fail \in BOOLEAN : CallUndoLastLog(fail)
    \/ \E fail \in {"none", "load"} : OpenPage(fail)
    \/ \E fail \in ApiCalls : api_ConfirmNoteBtn("both", fail)
    \/ \E fail \in ApiCalls : api_UndoClick(fail)

SpecUndoCalls == InitApi /\ [][NextUndoCalls]_vars

\* two devices of one user, each with the page open, and no request failing
NextTwoDevices ==
    \/ AdvanceDay
    \/ OpenPage("none")
    \/ \E arch \in {"both", "top", "bottom"} : api_ConfirmNoteBtn(arch, "none")
    \/ OtherOpenPage
    \/ \E arch \in {"both", "top", "bottom"} : OtherConfirmNoteBtn(arch)

SpecTwoDevices == InitApi /\ [][NextTwoDevices]_vars

\* logins and settings saves of the sessions of two users, statement by
\* statement, starting from empty tables
InitSettingsRace ==
    /\ today = 0
    /\ tz = 0
    /\ dstDay = MaxDay + 1
    /\ device2 = closedPage
    /\ server = idleServer
    /\ weekday0 = 0
    /\ IdleLegacy
    /\ defaultSettings = api_defaultSettings
    /\ settingsAliased = TRUE
    /\ appState = loadDataOk(api_defaultSettings, <<>>)
    /\ dom = hiddenPage
    /\ dbTurns = {}
    /\ dbSettings = {}
    /\ dbClock = 0
    /\ outcome = Outcome("init", FALSE, FALSE, FALSE, FALSE)
    /\ used = [edits |-> 0, failures |-> 0]

NextSettingsRace ==
    \/ \E u \in Users : LoginStart(u)
    \/ \E r \in server.requests : LoginInsertUser(r)
    \/ \E r \in server.requests : LoginInsertSettings(r)
    \/ \E u \in Users, body \in RaceBodies : PutCheck(u, body)
    \/ \E r \in server.requests : PutWrite(r)

SpecSettingsRace == InitSettingsRace /\ [][NextSettingsRace]_vars

\* the legacy page reopened after n days with one top turn a day (top total
\* raised and interval set to 1 in the settings form, logTogether off): the
\* days before day 0 are negative
LongState(n) ==
    [ legacy_defaultState EXCEPT
        !.topTotal = HistoryCap + MaxDay + 3,
        !.topDone = InitialDone + n,
        !.intervalDays = 1,
        !.logTogether = FALSE,
        !.lastTopTurnDate = Some(0 - 1),
        !.history = [ i \in 1 .. n |->
                        [ timestamp |-> 0 - i,
                          date |-> 0 - i,
                          topDoneAfter |-> InitialDone + n + 1 - i,
                          bottomDoneAfter |-> InitialDone ] ] ]

InitLongHistory ==
    /\ today = 0
    /\ tz = 0
    /\ dstDay \in DstDays
    /\ device2 = closedPage
    /\ server = idleServer
    /\ weekday0 = 0
    /\ IdleApi
    /\ defaultHistory = <<>>
    /\ aliased = FALSE
    /\ \E n \in {HistoryCap - 1, HistoryCap} : state = LongState(n)
    /\ stored = Some(state)
    /\ outcome = Outcome("load", FALSE, FALSE, FALSE, TRUE)
    /\ used = [edits |-> 0, failures |-> 0]

\* the logs and undos of day 0
NextLongHistory ==
    \/ \E arch \in {"top", "bottom"} : LongLogArchBtn(arch)
    \/ UndoBtn(FALSE)

SpecLongHistory == InitLongHistory /\ [][NextLongHistory]_vars

\* the legacy page used for some days, and then its saved history migrated
NextMigration ==
    \/ AdvanceDay
    \/ \E arch \in {"top", "bottom"} : LogArchBtn(arch, FALSE)
    \/ ConfirmNoteBtn(FALSE)
    \/ UndoBtn(FALSE)
    \/ SetLogTogether(FALSE)
    \/ \E stop \in BOOLEAN : Migrate(stop)

SpecMigration == InitLegacy /\ [][NextMigration]_vars

\* the requests of two users and of callers without a token on /api/turns
NextServerTurns ==
    \/ \E caller \in Callers : ServerGetTurns(caller)
    \/ \E user \in Users, body \in PostBodies : ServerPostTurns(Some(user), body)
    \/ ServerPostTurns(Null, AnonymousBody)
    \/ \E caller \in Callers, id \in {Null} \cup { Some(i) : i \in 0 .. 2 * MaxPosts - 1 } :
          ServerDeleteTurn(caller, id)
    \/ \E arch \in {"both", "top", "bottom", "middle"} : CallLogTurn(arch)

InitServer == InitApi /\ dstDay = MaxDay + 1

SpecServerTurns == InitServer /\ [][NextServerTurns]_vars

\* the requests of two users on /api/settings; no user has a row at the start
InitServerSettings ==
    /\ today = 0
    /\ tz = 0
    /\ dstDay = MaxDay + 1
    /\ device2 = closedPage
    /\ server = idleServer
    /\ weekday0 = 0
    /\ IdleLegacy
    /\ defaultSettings = api_defaultSettings
    /\ settingsAliased = TRUE
    /\ appState = loadDataOk(api_defaultSettings, <<>>)
    /\ dom = hiddenPage
    /\ dbTurns = {}
    /\ dbSettings = [ u \in Users |-> Null ]
    /\ dbClock = 0
    /\ outcome = Outcome("init", FALSE, FALSE, FALSE, FALSE)
    /\ used = [edits |-> 0, failures |-> 0]

NextServerSettings ==
    \/ \E caller \in Callers, body \in PutBodies : ServerPutSettings(caller, body)
    \/ \E caller \in Callers : ServerGetSettings(caller)

SpecServerSettings == InitServerSettings /\ [][NextServerSettings]_vars

\* canLogTurn over states drawn from what the settings form, the stored object
\* and the turns table can hold
ProbeDays == 0 .. MaxDay + 6
ProbeTotals == {MaxInput, MaxInput + WeeklyCap}

\* a row as POST /api/turns stores it for a turn logged on its date
ProbeRow(date, arch) ==
    [ id |-> 2 * date + (IF arch = "top" THEN 0 ELSE 1),
      date |-> date, arch |-> arch, createdAt |-> date ]

\* the sets of at most n such rows of one arch
RECURSIVE ProbeRowSets(_, _)
ProbeRowSets(n, arch) ==
    IF n = 0 THEN { {} }
    ELSE LET fewer == ProbeRowSets(n - 1, arch)
         IN  fewer \cup { rows \cup { ProbeRow(d, arch) } :
                            rows \in fewer, d \in ProbeDays }

\* up to WeeklyCap rows: any of one arch, and at most one of the other, of today
ProbeTurns ==
    { rows \in UNION { { own \cup other :
                            own \in ProbeRowSets(WeeklyCap, a),
                            other \in { {} } \cup { { ProbeRow(today, b) } :
                                                      b \in Arches \ {a} } } :
                       a \in Arches } :
        Cardinality(rows) <= WeeklyCap }

ProbeLegacyInputs ==
    /\ today \in 0 .. MaxDay
    /\ weekday0 = 0
    /\ tz \in TzOffsets
    /\ defaultHistory = <<>>
    /\ aliased = FALSE
    /\ stored = Null
    /\ \E total \in ProbeTotals, done \in 0 .. MaxInput + 1, interval \in 1 .. MaxInput,
          last \in {Null} \cup { Some(d) : d \in 0 .. MaxDay }, together \in BOOLEAN :
          state = [ legacy_defaultState EXCEPT
                      !.topTotal = total,
                      !.bottomTotal = total,
                      !.topDone = done,
                      !.bottomDone = done,
                      !.intervalDays = interval,
                      !.lastTurnDate = last,
                      !.lastTopTurnDate = last,
                      !.lastBottomTurnDate = last,
                      !.logTogether = together,
                      !.history = <<>> ]

ProbeApiInputs ==
    /\ today \in ProbeDays
    /\ weekday0 \in Weekdays
    /\ tz = 0
    /\ defaultSettings = api_defaultSettings
    /\ settingsAliased = FALSE
    /\ dbClock = 0
    /\ \E total \in ProbeTotals, interval \in 1 .. MaxInput,
          type \in {"every_n_days", "twice_per_week"} :
          dbSettings = [ api_defaultSettings EXCEPT
                           !.topTotal = total,
                           !.bottomTotal = total,
                           !.scheduleType = type,
                           !.intervalDays = IF type = "every_n_days" THEN interval
                                            ELSE DefaultIntervalDays ]
    /\ dbTurns \in ProbeTurns
    /\ \E turns \in getTurns(dbTurns) :
          appState = loadDataOk(getSettings(dbSettings), turns)
    /\ dom = render(appState)

InitProbe ==
    /\ dstDay \in DstDays
    /\ device2 = closedPage
    /\ server = idleServer
    /\ outcome = Outcome("init", FALSE, FALSE, FALSE, FALSE)
    /\ used = [edits |-> 0, failures |-> 0]
    /\ \/ ProbeLegacyInputs /\ IdleApi
       \/ ProbeApiInputs /\ IdleLegacy

NextProbe ==
    \/ \E arch \in {"both", "top", "bottom"} : CallLegacyCanLogTurn(arch)
    \/ \E arch \in Arches : CallApiCanLogTurn(arch)

SpecProbe == InitProbe /\ [][NextProbe]_vars

\* the API page of a user whose stored schedule is twice_per_week, with every
\* request answered
InitWeekly ==
    /\ today = 0
    /\ tz = 0
    /\ dstDay \in DstDays
    /\ device2 = closedPage
    /\ server = idleServer
    /\ weekday0 \in Weekdays
    /\ IdleLegacy
    /\ defaultSettings = api_defaultSettings
    /\ settingsAliased = TRUE
    /\ appState = loadDataOk(api_defaultSettings, <<>>)
    /\ dom = hiddenPage
    /\ dbTurns = {}
    /\ \E total \in ProbeTotals :
          dbSettings = [ api_defaultSettings EXCEPT
                           !.topTotal = total,
                           !.bottomTotal = total,
                           !.scheduleType = "twice_per_week" ]
    /\ dbClock = 0
    /\ outcome = Outcome("init", FALSE, FALSE, FALSE, FALSE)
    /\ used = [edits |-> 0, failures |-> 0]

NextWeekly ==
    \/ AdvanceDay
    \/ OpenPage("none")
    \/ \E arch \in {"both", "top", "bottom"} : api_ConfirmNoteBtn(arch, "none")
    \/ api_UndoBtn("none")

SpecWeekly == InitWeekly /\ [][NextWeekly]_vars

\* the queries render makes (canLogTurn, getNextDueDate, getStatus, the overall
\* status) over drawn states in which the two tracks differ and an install
\* date may be set
QueryLegacyInputs ==
    /\ today = MaxDay
    /\ tz \in TzOffsets
    /\ weekday0 = 0
    /\ defaultHistory = <<>>
    /\ aliased = FALSE
    /\ stored = Null
    /\ \E total \in ProbeTotals, interval \in 1 .. MaxInput, together \in BOOLEAN,
          install \in {Null, Some(0)},
          topDone \in {InitialDone, MaxInput + WeeklyCap},
          bottomDone \in {InitialDone, MaxInput + WeeklyCap},
          lastTop \in {Null} \cup { Some(d) : d \in 0 .. MaxDay },
          lastBottom \in {Null, Some(0), Some(MaxDay)},
          lastBoth \in {Null, Some(0), Some(MaxDay)} :
          state = [ legacy_defaultState EXCEPT
                      !.topTotal = total,
                      !.bottomTotal = total,
                      !.topDone = topDone,
                      !.bottomDone = bottomDone,
                      !.intervalDays = interval,
                      !.installDate = install,
                      !.lastTurnDate = lastBoth,
                      !.lastTopTurnDate = lastTop,
                      !.lastBottomTurnDate = lastBottom,
                      !.logTogether = together,
                      !.history = <<>> ]

QueryApiInputs ==
    /\ today \in ProbeDays
    /\ tz = 0
    /\ weekday0 = 6
    /\ defaultSettings = api_defaultSettings
    /\ settingsAliased = FALSE
    /\ dbClock = 0
    /\ \E total \in ProbeTotals, interval \in 1 .. MaxInput,
          install \in {Null, Some(0)},
          type \in {"every_n_days", "twice_per_week"} :
          /\ type = "twice_per_week" =>
                interval = DefaultIntervalDays /\ install = Null
          /\ dbSettings = [ api_defaultSettings EXCEPT
                              !.topTotal = total,
                              !.bottomTotal = total,
                              !.installDate = install,
                              !.scheduleType = type,
                              !.intervalDays = interval ]
    /\ dbTurns \in ProbeTurns
    /\ \E turns \in getTurns(dbTurns) :
          appState = loadDataOk(getSettings(dbSettings), turns)
    /\ dom = render(appState)

InitQueries ==
    /\ dstDay \in DstDays
    /\ device2 = closedPage
    /\ server = idleServer
    /\ outcome = Outcome("init", FALSE, FALSE, FALSE, FALSE)
    /\ used = [edits |-> 0, failures |-> 0]
    /\ \/ QueryLegacyInputs /\ IdleApi
       \/ QueryApiInputs /\ IdleLegacy

NextQueries ==
    \/ \E arch \in {"both", "top", "bottom"} : CallLegacyCanLogTurn(arch)
    \/ \E arch \in {"both", "top", "bottom"} : CallLegacyGetNextDueDate(arch)
    \/ \E arch \in {"both", "top", "bottom"} : CallLegacyGetStatus(arch)
    \/ \E arch \in Arches : CallApiCanLogTurn(arch)
    \/ \E arch \in Arches : CallApiGetNextDueDate(arch)
    \/ \E arch \in Arches : CallApiGetStatus(arch)
    \/ CallOverallStatus

SpecQueries == InitQueries /\ [][NextQueries]_vars

\* the "Next due" field of either page over the drawn states
NextRender ==
    \/ CallApiRenderNextDue
    \/ CallLegacyRenderNextDue

SpecRender == InitQueries /\ [][NextRender]_vars

----------------------------------------------------------------------------
(* Properties *)

Fields == [top |-> "topDoneAfter", bottom |-> "bottomDoneAfter"]

\* legacy: history entry i advanced the counter its snapshot field records
Advanced(h, i, field) ==
    h[i][field] > (IF i = Len(h) THEN InitialDone ELSE h[i + 1][field])

legacy_done(s, arch) == IF arch = "top" THEN s.topDone ELSE s.bottomDone
legacy_total(s, arch) == IF arch = "top" THEN s.topTotal ELSE s.bottomTotal
legacy_lastDate(s, arch) ==
    IF arch = "top" THEN s.lastTopTurnDate ELSE s.lastBottomTurnDate

api_logged(s, arch) == IF arch = "top" THEN s.counts.topDone ELSE s.counts.bottomDone
api_total(s, arch) == IF arch = "top" THEN s.settings.topTotal ELSE s.settings.bottomTotal
api_lastDate(s, arch) == IF arch = "top" THEN s.lastDates.top ELSE s.lastDates.bottom

\* C1: in the legacy variant with intervalDays left alone, whatever day advances,
\* guarded logs, undos and logTogether switches have happened, no track's
\* counter has been advanced twice on days fewer than intervalDays apart: any
\* two history entries that advanced the same counter were logged at least
\* intervalDays days apart.
C1_AdvancesIntervalApart ==
    \A arch \in Arches : \A i, j \in 1..Len(state.history) :
        ( /\ i < j
          /\ Advanced(state.history, i, Fields[arch])
          /\ Advanced(state.history, j, Fields[arch]) )
        => state.history[i].timestamp - state.history[j].timestamp
              >= state.intervalDays

\* C2: in every state reached by logs, undos, reset and settings edits, the done
\* count of each track is at most the track's total.
C2_DoneWithinTotal ==
    /\ state.topDone <= state.topTotal
    /\ state.bottomDone <= state.bottomTotal

\* C3: for a single track canLogTurn answers {canLog: false, reason: 'complete'}
\* exactly when the done count plus the install offset (1 in the API variant, 0
\* in the legacy one) has reached the total, whatever the dates, the schedule
\* and the history are.
C3_CompleteIffDoneReachesTotal ==
    (outcome.op = "canLogTurn" /\ outcome.arch \in Arches) =>
        LET done == IF outcome.variant = "api"
                    THEN api_logged(appState, outcome.arch) + 1
                    ELSE legacy_done(state, outcome.arch)
            total == IF outcome.variant = "api"
                     THEN api_total(appState, outcome.arch)
                     ELSE legacy_total(state, outcome.arch)
        IN  IF done >= total
            THEN outcome.result = Result(FALSE, "complete", Null)
            ELSE outcome.result.reason # "complete"

\* canLogTurn answered 'complete' for a track of the API variant that the weekly
\* schedule alone would also have refused
C3_Witness ==
    /\ outcome.op = "canLogTurn"
    /\ outcome.variant = "api"
    /\ outcome.arch = "top"
    /\ outcome.result = Result(FALSE, "complete", Null)
    /\ appState.settings.scheduleType = "twice_per_week"
    /\ appState.counts.topDone = WeeklyCap
    /\ \A r \in dbTurns : r.date = today \/ r.date = today - 1

\* the day on which the newest entry carrying the given date string was logged
LoggedOn(h, date) ==
    h[CHOOSE i \in 1..Len(h) :
        h[i].date = date /\ \A j \in 1..Len(h) : h[j].date = date => i <= j].timestamp

\* C4: under the every-n-days schedule a track that is not complete and whose
\* last turn was logged k days before today may not be logged, with
\* daysRemaining = intervalDays - k, when k < intervalDays, and may be logged
\* when k >= intervalDays; a track with no last-turn date may be logged.
C4_IntervalGate ==
    \A arch \in Arches :
        LET can == legacy_canLogTurn(state, arch)
            lastDate == legacy_lastDate(state, arch)
        IN  legacy_done(state, arch) < legacy_total(state, arch) =>
              IF lastDate = Null THEN can = Result(TRUE, "none", Null)
              ELSE (\E i \in 1..Len(state.history) : state.history[i].date = Val(lastDate)) =>
                   LET k == today - LoggedOn(state.history, Val(lastDate))
                   IN  IF k < state.intervalDays
                       THEN can = Result(FALSE, "wait", Some(state.intervalDays - k))
                       ELSE can = Result(TRUE, "none", Null)

\* the Monday of the week (Monday to Sunday) that holds the day
MondayOf(day) == day - ((getDay(day) + 6) % 7)

\* the stored turns of the track dated in the Monday-to-Sunday week of today
StoredThisWeek(arch) ==
    { r \in dbTurns : /\ r.arch = arch
                      /\ r.date >= MondayOf(today)
                      /\ r.date <= MondayOf(today) + 6 }

\* C5: under the twice-per-week schedule (API variant) a track that is not
\* complete is refused with reason 'wait' and no daysRemaining exactly when two
\* or more turns of that track are dated in the current Monday-to-Sunday week;
\* turns of the Sunday before and of the Monday after are not counted, and
\* otherwise the track may be logged.
C5_TwicePerWeek ==
    ( /\ outcome.op = "canLogTurn"
      /\ outcome.variant = "api"
      /\ appState.settings.scheduleType = "twice_per_week"
      /\ api_logged(appState, outcome.arch) + INSTALL_TURN
            < api_total(appState, outcome.arch) )
    => IF Cardinality(StoredThisWeek(outcome.arch)) >= 2
       THEN outcome.result = Result(FALSE, "wait", Null)
       ELSE outcome.result = Result(TRUE, "none", Null)

\* a track with two stored turns, one in this week and one on the Monday after,
\* was allowed
C5_Witness ==
    /\ outcome.op = "canLogTurn"
    /\ outcome.variant = "api"
    /\ appState.settings.scheduleType = "twice_per_week"
    /\ outcome.result.canLog
    /\ Cardinality({ r \in dbTurns : r.arch = outcome.arch }) = 2
    /\ Cardinality(StoredThisWeek(outcome.arch)) = 1
    /\ \E r \in dbTurns : r.arch = outcome.arch /\ r.date = MondayOf(today) + 7

\* legacy: the page lets arch be logged now
MayLog(arch) ==
    /\ legacy_canLogTurn(state, arch).canLog
    /\ IF arch = "both" THEN LogTogetherButton(state) ELSE LogArchButton(state, arch)

\* C6: logging a turn and undoing it at once restores both done counts, both
\* last-turn dates and the combined last-turn date.
C6_LogUndoRoundTrip ==
    \A arch \in {"both", "top", "bottom"} :
        MayLog(arch) =>
            LET back == undoLastLog(legacy_logTurn(state, arch))
            IN  /\ back.topDone = state.topDone
                /\ back.bottomDone = state.bottomDone
                /\ back.lastTopTurnDate = state.lastTopTurnDate
                /\ back.lastBottomTurnDate = state.lastBottomTurnDate
                /\ back.lastTurnDate = state.lastTurnDate

StoredOf(arch) == { r \in dbTurns : r.arch = arch }

MaxDateOf(rows) ==
    IF rows = {} THEN Null
    ELSE Some(CHOOSE d \in { r.date : r \in rows } : \A r \in rows : r.date <= d)

\* C7: in the API variant after every logTurn, undoTurn or loadData that
\* succeeded, each count is the number of stored turns of its arch and each
\* last date is the greatest date among them (null when there is none), whatever
\* was held before the operation.
C7_DerivedFromStoredTurns ==
    (outcome.op \in {"load", "log", "undo"} /\ ~outcome.threw) =>
        \A arch \in Arches :
            /\ api_logged(appState, arch) = Cardinality(StoredOf(arch))
            /\ api_lastDate(appState, arch) = MaxDateOf(StoredOf(arch))

\* an undo succeeded after an earlier reload had failed, with turns of two dates
\* left in the store
C7_Witness ==
    /\ outcome.op = "undo"
    /\ ~outcome.threw
    /\ used.failures > 0
    /\ \E r, q \in StoredOf("top") : r.date < q.date

\* C8: a track's last-turn date is unset exactly when no entry left in the
\* history advanced that track, and when set it is the date of an entry that
\* advanced that track.
C8_LastDateFromOwnTrack ==
    \A arch \in Arches :
        LET own == { i \in 1..Len(state.history) :
                       Advanced(state.history, i, Fields[arch]) }
            lastDate == legacy_lastDate(state, arch)
        IN  /\ lastDate = Null <=> own = {}
            /\ lastDate # Null =>
                  \E i \in own : state.history[i].date = Val(lastDate)

\* C9: in the legacy variant, when saveState fails after a handler changed the
\* state, the change is rolled back or the error reaches the caller before
\* anything is rendered.
C9_SaveFailureNotSwallowed ==
    (outcome.op \in {"log", "undo", "toggle", "reset"} /\ outcome.saveFailed) =>
        \/ ~outcome.mutated
        \/ outcome.threw /\ ~outcome.rendered

\* C10: in the API variant, when a request of logTurn, undoTurn or loadData
\* fails, the error is thrown to the caller and the in-memory state is the one
\* held before the call.
C10_FailureKeepsState ==
    (outcome.op \in {"load", "log", "undo"} /\ outcome.saveFailed) =>
        outcome.threw /\ ~outcome.mutated

\* the track (for 'both': each of the two tracks) has reached its total
IsComplete(variant, arch) ==
    IF variant = "api"
    THEN api_logged(appState, arch) + INSTALL_TURN >= api_total(appState, arch)
    ELSE IF arch = "both"
    THEN /\ legacy_done(state, "top") >= legacy_total(state, "top")
         /\ legacy_done(state, "bottom") >= legacy_total(state, "bottom")
    ELSE legacy_done(state, arch) >= legacy_total(state, arch)

\* C11: getNextDueDate returns null if and only if the queried track is complete
\* (for the combined 'both' query: if and only if both tracks are complete); so
\* it returns a date for every track that is not complete, also one with no
\* prior turn and no installDate.
C11_DueDateNullIffComplete ==
    outcome.op = "getNextDueDate" =>
        (outcome.result = Null <=> IsComplete(outcome.variant, outcome.arch))

\* the date the every-n-days schedule counts from: the track's last-turn date,
\* or the install date when the track has none
Anchor(variant, arch) ==
    IF variant = "api"
    THEN IF api_lastDate(appState, arch) # Null THEN api_lastDate(appState, arch)
         ELSE appState.settings.installDate
    ELSE IF legacy_lastDate(state, arch) # Null THEN legacy_lastDate(state, arch)
         ELSE state.installDate

IntervalOf(variant) ==
    IF variant = "api" THEN appState.settings.intervalDays ELSE state.intervalDays

\* C12: under every_n_days, for a track that is not complete, getNextDueDate
\* returns the day lastDate[track] + intervalDays when the track has a prior
\* turn, and installDate + intervalDays when it has none and installDate is set.
\* The day of the returned Date is the local calendar day the page shows for it.
C12_DueDateIsAnchorPlusInterval ==
    ( /\ outcome.op = "getNextDueDate"
      /\ outcome.arch \in Arches
      /\ outcome.variant = "api" => appState.settings.scheduleType = "every_n_days"
      /\ ~IsComplete(outcome.variant, outcome.arch)
      /\ Anchor(outcome.variant, outcome.arch) # Null )
    => /\ outcome.result # Null
       /\ LocalDayOf(Val(outcome.result))
            = Val(Anchor(outcome.variant, outcome.arch)) + IntervalOf(outcome.variant)

\* C13: under twice_per_week (API variant), for a track that is not complete,
\* getNextDueDate returns today when fewer than two turns of that track are
\* dated in the current Monday-start week, and the Monday that starts the next
\* week (this week's Monday + 7 days) when two or more are; it is today exactly
\* when canLogTurn(track).canLog is true.
C13_TwicePerWeekDueDate ==
    ( /\ outcome.op = "getNextDueDate"
      /\ outcome.variant = "api"
      /\ appState.settings.scheduleType = "twice_per_week"
      /\ ~IsComplete("api", outcome.arch) )
    => /\ outcome.result =
            IF Cardinality(StoredThisWeek(outcome.arch)) < 2
            THEN Some(Midnight(today))
            ELSE Some(Midnight(MondayOf(today) + 7))
       /\ outcome.result = Some(Midnight(today))
            <=> api_canLogTurn(appState, outcome.arch).canLog

\* on a Sunday, with two turns of the track in the week that ends that day, the
\* due date returned is the next day's Monday
C13_Witness ==
    /\ outcome.op = "getNextDueDate"
    /\ outcome.variant = "api"
    /\ appState.settings.scheduleType = "twice_per_week"
    /\ ~IsComplete("api", outcome.arch)
    /\ getDay(today) = 0
    /\ Cardinality(StoredThisWeek(outcome.arch)) = 2
    /\ outcome.result = Some(Midnight(today + 1))

\* what canLogTurn answers for the track in the state as it stands
CanLogNow(variant, arch) ==
    IF variant = "api" THEN api_canLogTurn(appState, arch)
    ELSE legacy_canLogTurn(state, arch)

\* C14: for a single track getStatus returns 'complete' exactly when canLogTurn
\* rejects with reason 'complete', 'wait' exactly when canLogTurn rejects with
\* reason 'wait', and 'ready' exactly when canLogTurn returns canLog = true; it
\* returns nothing else.
C14_StatusFollowsCanLogTurn ==
    (outcome.op = "getStatus" /\ outcome.arch \in Arches) =>
        LET can == CanLogNow(outcome.variant, outcome.arch)
        IN  /\ outcome.result \in {"complete", "wait", "ready"}
            /\ outcome.result = "complete" <=> (~can.canLog /\ can.reason = "complete")
            /\ outcome.result = "wait" <=> (~can.canLog /\ can.reason = "wait")
            /\ outcome.result = "ready" <=> can.canLog

\* getStatus answered 'wait' for a track of the API variant held back by the
\* interval
C14_Witness ==
    /\ outcome.op = "getStatus"
    /\ outcome.variant = "api"
    /\ outcome.arch = "bottom"
    /\ outcome.result = "wait"
    /\ appState.settings.scheduleType = "every_n_days"
    /\ appState.lastDates.bottom = Some(today)

\* the status of one track in the state as it stands
StatusNow(variant, arch) ==
    IF variant = "api" THEN api_getStatus(appState, arch)
    ELSE legacy_getStatus(state, arch)

\* C15: the combined status (the overall status of the API variant's render,
\* getStatus('both') of the legacy variant, logTogether on or off) is 'complete'
\* only if both per-track statuses are 'complete', 'ready' if at least one
\* per-track status is 'ready', and 'wait' in every other case.
C15_CombinedStatus ==
    ( \/ outcome.op = "overallStatus"
      \/ outcome.op = "getStatus" /\ outcome.arch = "both" )
    => LET topStatus == StatusNow(outcome.variant, "top")
           bottomStatus == StatusNow(outcome.variant, "bottom")
       IN  outcome.result =
             IF topStatus = "complete" /\ bottomStatus = "complete" THEN "complete"
             ELSE IF topStatus = "ready" \/ bottomStatus = "ready" THEN "ready"
             ELSE "wait"

\* C16: legacy canLogTurn('both') returns reason 'complete' when both tracks
\* are complete; otherwise, with logTogether off, it returns canLog = true if and
\* only if canLogTurn('top') or canLogTurn('bottom') does; with logTogether on
\* it applies the daysSince < intervalDays check to the combined last-turn date
\* and allows the log when that date is unset.
C16_CanLogBoth ==
    ( /\ outcome.op = "canLogTurn"
      /\ outcome.variant = "legacy"
      /\ outcome.arch = "both" )
    => IF IsComplete("legacy", "both")
       THEN outcome.result = Result(FALSE, "complete", Null)
       ELSE IF ~state.logTogether
       THEN outcome.result.canLog <=>
              ( \/ legacy_canLogTurn(state, "top").canLog
                \/ legacy_canLogTurn(state, "bottom").canLog )
       ELSE IF state.lastTurnDate = Null
       THEN outcome.result.canLog
       ELSE LET daysSince ==
                  legacy_daysBetween(SetHoursZero(ParseIsoUtc(Val(state.lastTurnDate))),
                                     legacy_todayMidnight)
            IN  outcome.result =
                  IF daysSince < state.intervalDays
                  THEN Result(FALSE, "wait", Some(state.intervalDays - daysSince))
                  ELSE Result(TRUE, "none", Null)

\* with logTogether off, top held back by its interval and bottom free, the
\* combined query allowed the log
C16_Witness ==
    /\ outcome.op = "canLogTurn"
    /\ outcome.variant = "legacy"
    /\ outcome.arch = "both"
    /\ ~state.logTogether
    /\ legacy_canLogTurn(state, "top").reason = "wait"
    /\ legacy_canLogTurn(state, "bottom").canLog
    /\ outcome.result.canLog

\* exactly one track of s is complete
OneTrackLeft(s) ==
    (s.topDone >= s.topTotal) # (s.bottomDone >= s.bottomTotal)

LegacyLogStep ==
    \/ \E arch \in {"top", "bottom"} : LogArchBtn(arch, FALSE)
    \/ ConfirmNoteBtn(FALSE)

\* C17: the log that makes exactly one track complete while the other still has
\* turns left switches logTogether from true to false, and afterwards only the
\* user's own change of the settings (the logTogether switch, or the reset that
\* restores every default) switches it back to true.
C17_LogTogetherSwitchesOff ==
    [][ /\ ( LegacyLogStep /\ state.logTogether
               /\ ~OneTrackLeft(state) /\ OneTrackLeft(state') )
          => ~state'.logTogether
        /\ ( ~state.logTogether /\ state'.logTogether )
          => SetLogTogether(FALSE) \/ ConfirmResetBtn(FALSE) ]_vars

\* C18: in the legacy variant after a confirmed reset, whatever came before it,
\* the history is empty, both done counters are 1, the three last-turn dates are
\* unset and every setting has its default.
C18_ResetRestoresDefaults ==
    outcome.op = "reset" =>
        /\ state.history = <<>>
        /\ state.topDone = InitialDone
        /\ state.bottomDone = InitialDone
        /\ state.lastTurnDate = Null
        /\ state.lastTopTurnDate = Null
        /\ state.lastBottomTurnDate = Null
        /\ state.topTotal = DefaultTopTotal
        /\ state.bottomTotal = DefaultBottomTotal
        /\ state.intervalDays = DefaultIntervalDays
        /\ state.installDate = Null
        /\ state.logTogether

\* C19: in the API variant after a confirmed reset has run to its end, no turn
\* of the user is stored and the stored settings equal the defaults, also when
\* some of the delete requests were rejected.
C19_ResetClearsStore ==
    (outcome.op = "reset" /\ ~outcome.threw) =>
        /\ dbTurns = {}
        /\ dbSettings = api_defaultSettings

\* the undo-last button ran and its DELETE was answered
UndoLastStep == \E fail \in {"none", "load"} : api_UndoBtn(fail)

\* C20: undo-last removes exactly one event, the newest by (date descending,
\* createdAt descending), and leaves every other event as it was; so of the two
\* turns logged together on a day one is removed before any turn of an earlier
\* date.
C20_UndoLastRemovesNewest ==
    [][ UndoLastStep =>
          \E r \in dbTurns :
              /\ dbTurns' = dbTurns \ {r}
              /\ \A o \in dbTurns : OrderedBefore(r, o) ]_vars

\* an undo has left one of the two turns logged together on the latest day,
\* with both turns of an earlier day still stored
C20_Witness ==
    /\ outcome.op = "undo"
    /\ ~outcome.threw
    /\ Len(appState.turns) > 0
    /\ \E late \in dbTurns :
          /\ appState.turns[1] = late
          /\ \A o \in dbTurns \ {late} : o.date < late.date
          /\ \E e1, e2 \in dbTurns \ {late} :
                e1.date = e2.date /\ e1.arch = "top" /\ e2.arch = "bottom"

\* C21: undo with nothing to undo is not an error: undoLastLog on an empty
\* history returns false, throws nothing, calls no persistence and leaves the
\* state as it was; the API undo-last handler with an empty turn list sends no
\* DELETE.
C21_UndoNothingIsNoError ==
    [][ /\ ( (\E fail \in BOOLEAN : CallUndoLastLog(fail)) /\ state.history = <<>> )
          => /\ outcome'.result.returned = FALSE
             /\ ~outcome'.result.threw
             /\ outcome'.result.saves = 0
             /\ state' = state
             /\ stored' = stored
        /\ ( (\E fail \in ApiCalls : api_UndoClick(fail)) /\ Len(appState.turns) = 0 )
          => /\ outcome'.result.deletes = 0
             /\ ~outcome'.result.threw
             /\ dbTurns' = dbTurns
             /\ appState' = appState ]_vars

\* undoLastLog was called on an empty history after a turn had been logged
\* and undone
C21_Witness ==
    /\ outcome.op = "undoLastLog"
    /\ ~outcome.result.returned
    /\ state.history = <<>>
    /\ stored # Null

\* the greatest date among the entries of a history, unset for an empty one
MaxHistoryDate(h) ==
    IF Len(h) = 0 THEN Null
    ELSE Some(CHOOSE d \in { h[i].date : i \in 1..Len(h) } :
                  \A i \in 1..Len(h) : h[i].date <= d)

\* C22: in the legacy variant after any sequence of logTurn and undoLastLog,
\* lastTurnDate is the greatest date among the entries left in the history, and
\* unset when the history is empty.
C22_LastTurnDateIsMaxOfHistory ==
    outcome.op \in {"log", "undo"} => state.lastTurnDate = MaxHistoryDate(state.history)

\* a POST body the server must refuse: no non-empty array, or an element
\* without date or arch or with an arch that is no track
Malformed(body) ==
    \/ ~body.isArray
    \/ Len(body.turns) = 0
    \/ \E i \in 1..Len(body.turns) :
          \/ body.turns[i].date = Null
          \/ body.turns[i].arch = Null
          \/ body.turns[i].arch \notin {Some("top"), Some("bottom")}

\* C23: turn creation is validated before any mutation and is all-or-nothing: a
\* POST /api/turns with a malformed body is answered 400 and inserts no turn,
\* not even the well-formed elements of the batch; the client's logTurn with an
\* arch that names no track throws before it sends a request.
C23_ValidatedBeforeInsert ==
    [][ /\ ( /\ outcome'.op = "POST /api/turns"
             /\ outcome'.caller # Null
             /\ Malformed(outcome'.request) )
          => outcome'.status = 400 /\ dbTurns' = dbTurns
        /\ CallLogTurn("middle")
          => outcome'.op = "logTurn" /\ dbTurns' = dbTurns /\ dbClock' = dbClock ]_vars

\* a batch whose first element was well formed and whose second was not has
\* been refused with the table still empty
C23_Witness ==
    /\ outcome.op = "POST /api/turns"
    /\ outcome.caller # Null
    /\ outcome.status = 400
    /\ Len(outcome.request.turns) = 2
    /\ outcome.request.turns[1].date # Null
    /\ outcome.request.turns[1].arch = Some("top")
    /\ outcome.request.turns[2].arch = Some("middle")
    /\ dbTurns = {}

OthersRows(rows, caller) == { r \in rows : Some(r.user_id) # caller }

\* C26: whatever a user sends to /api/turns, the turns of the other users are
\* never returned, added to or removed, and every turn a POST creates carries
\* the caller's user id whatever the body contains.
C26_PerUserOwnership ==
    [][ outcome'.op \in {"GET /api/turns", "POST /api/turns", "DELETE /api/turns"}
        => /\ OthersRows(dbTurns', outcome'.caller) = OthersRows(dbTurns, outcome'.caller)
           /\ outcome'.op = "GET /api/turns" =>
                \A i \in 1..Len(outcome'.body) :
                    Some(outcome'.body[i].user_id) = outcome'.caller
           /\ outcome'.op = "POST /api/turns" =>
                /\ \A r \in dbTurns' \ dbTurns : Some(r.user_id) = outcome'.caller
                /\ outcome'.caller = Null => dbTurns' = dbTurns ]_vars

\* a user with turns of their own has read the list while another user's turns
\* were stored
C26_Witness ==
    /\ outcome.op = "GET /api/turns"
    /\ outcome.status = 200
    /\ Len(outcome.body) > 0
    /\ OthersRows(dbTurns, outcome.caller) # {}

\* C24: settings updates are validated before any mutation: a PUT
\* /api/settings with an unknown scheduleType or with an intervalDays that is
\* negative or zero is refused and leaves the stored row as it was, so every
\* stored intervalDays and total is a positive integer.
C24_SettingsValidated ==
    [][ /\ ( /\ outcome'.op = "PUT /api/settings"
             /\ outcome'.caller # Null
             /\ \/ outcome'.request.scheduleType
                     \notin {Null, Some("every_n_days"), Some("twice_per_week")}
                \/ /\ outcome'.request.intervalDays # Null
                   /\ Val(outcome'.request.intervalDays) <= 0 )
          => outcome'.status # 200 /\ dbSettings' = dbSettings
        /\ \A u \in Users :
              dbSettings'[u] # Null =>
                  /\ Val(dbSettings'[u]).intervalDays > 0
                  /\ Val(dbSettings'[u]).topTotal > 0
                  /\ Val(dbSettings'[u]).bottomTotal > 0 ]_vars

\* C27: under twice_per_week the weekly cap is the only gate: when a track is
\* not complete and has fewer than two turns dated in the current week,
\* canLogTurn allows it and the logTurn that follows for that track today
\* succeeds and adds one turn, however near the track's other turns are.
C27_WeeklyCapIsOnlyGate ==
    [][ \A arch \in Arches :
          ( /\ api_ConfirmNoteBtn(arch, "none")
            /\ dbSettings.scheduleType = "twice_per_week"
            /\ Cardinality(StoredOf(arch)) + INSTALL_TURN < api_total(appState, arch)
            /\ Cardinality(StoredThisWeek(arch)) < 2 )
          => /\ api_canLogTurn(appState, arch).canLog
             /\ ~outcome'.threw
             /\ \E r \in dbTurns' \ dbTurns :
                   /\ dbTurns' = dbTurns \cup {r}
                   /\ r.arch = arch
                   /\ r.date = today ]_vars

\* C28: in the API variant the install-turn offset of 1 is applied alike
\* wherever a done count meets a total: for a track with L logged turns,
\* canLogTurn reports 'complete', getStatus reports 'complete', getNextDueDate
\* returns null and render draws no log button for the track, all exactly when
\* L + 1 >= total; and the remaining count shown is max(0, total - (L + 1)).
C28_InstallTurnOffset ==
    ( outcome.op \in {"getNextDueDate", "getStatus"} /\ outcome.variant = "api" )
    => LET arch == outcome.arch
           L == Cardinality(StoredOf(arch))
           total == dbSettings[IF arch = "top" THEN "topTotal" ELSE "bottomTotal"]
           complete == L + 1 >= total
       IN  /\ (api_canLogTurn(appState, arch).reason = "complete") <=> complete
           /\ (api_getStatus(appState, arch) = "complete") <=> complete
           /\ (api_getNextDueDate(appState, arch) = Null) <=> complete
           /\ complete => ~(IF arch = "top" THEN dom.logTopBtn ELSE dom.logBottomBtn)
           /\ renderProgress(appState, arch).remaining =
                IF total - (L + 1) > 0 THEN total - (L + 1) ELSE 0

\* the last-turn date the queried track holds, as a day number
LastDateNow(variant, arch) ==
    IF variant = "api" THEN api_lastDate(appState, arch) ELSE legacy_lastDate(state, arch)

\* C29: a last-turn date in the future never makes a track eligible: under
\* every_n_days canLogTurn returns 'wait' with daysRemaining = intervalDays -
\* daysSince, which is more than intervalDays, and the track stays refused until
\* today has come to lastDate + intervalDays.
C29_FutureDateNeverEligible ==
    ( /\ outcome.op = "canLogTurn"
      /\ outcome.arch \in Arches
      /\ outcome.variant = "api" => appState.settings.scheduleType = "every_n_days"
      /\ ~IsComplete(outcome.variant, outcome.arch)
      /\ LastDateNow(outcome.variant, outcome.arch) # Null )
    => LET last == Val(LastDateNow(outcome.variant, outcome.arch))
           interval == IntervalOf(outcome.variant)
       IN  /\ today < last =>
                outcome.result = Result(FALSE, "wait", Some(interval - (today - last)))
           /\ today < last + interval => ~outcome.result.canLog

\* C30: the next-due date shown to the user is never earlier than today: a
\* projected due date on or before today is shown as today, in the render of
\* the API variant and of the legacy variant.
C30_NextDueNotBeforeToday ==
    ( outcome.op = "renderNextDue" /\ outcome.result # Null )
    => Val(outcome.result) >= today

\* the earlier of two optional instants: the other one when one is null
EarlierOf(a, b) ==
    IF a = Null THEN b
    ELSE IF b = Null THEN a
    ELSE Some(Min2(Val(a), Val(b)))

\* C31: the combined next-due date is the earlier of the two per-track due
\* dates, null only when both are null: for render's nextDue in the API variant
\* and for getNextDueDate('both') in the legacy variant, logTogether on or off
C31_CombinedDueIsEarlier ==
    /\ ( outcome.op = "getNextDueDate" /\ outcome.variant = "legacy"
          /\ outcome.arch = "both" )
       => outcome.result = EarlierOf(legacy_getNextDueDateSingle(state, "top"),
                                     legacy_getNextDueDateSingle(state, "bottom"))
    /\ dom.visible
       => api_nextDue(appState) = EarlierOf(api_getNextDueDate(appState, "top"),
                                            api_getNextDueDate(appState, "bottom"))

Queries == {"canLogTurn", "getNextDueDate", "getStatus"}

MigratedFor(h, i, arch) ==
    { r \in dbTurns : r.arch = arch /\ r.date = h[i].date /\ r.id \div 2 = i }

\* C33: for every entry of the migrated history the migration creates a 'top'
\* turn on the entry's date iff topDoneAfter increased over the next-older
\* entry (over the initial count for the oldest one) and a 'bottom' turn iff
\* bottomDoneAfter did, so the turns per track number the entries in which
\* that track advanced
C33_MigrationFollowsCounters ==
    outcome.op = "migration"
    => LET h == outcome.result.history
       IN  \A arch \in Arches :
              /\ \A i \in 1 .. Len(h) :
                    Advanced(h, i, Fields[arch]) <=> MigratedFor(h, i, arch) # {}
              /\ Cardinality({ r \in dbTurns : r.arch = arch })
                   = Cardinality({ i \in 1 .. Len(h) : Advanced(h, i, Fields[arch]) })

\* a well-formed batch that repeats a (date, arch) of the caller's stored turns
\* or holds one twice
WouldDuplicate(rows, caller, body) ==
    /\ body.isArray
    /\ Len(body.turns) > 0
    /\ \A i \in 1 .. Len(body.turns) : WellFormed(body.turns[i])
    /\ \/ \E r \in rows, i \in 1 .. Len(body.turns) :
             /\ r.user_id = caller
             /\ r.date = Val(body.turns[i].date)
             /\ r.arch = Val(body.turns[i].arch)
       \/ \E i, j \in 1 .. Len(body.turns) :
             /\ i # j
             /\ body.turns[i].date = body.turns[j].date
             /\ body.turns[i].arch = body.turns[j].arch

\* C34: whatever the order of the POST /api/turns requests of a user's
\* sessions, the store never holds two turns of one (user, date, arch); a batch
\* that would make such a pair is answered 409 and none of its turns is stored
C34_NoDuplicateTurns ==
    [][ /\ \A r1, r2 \in dbTurns' :
              ( r1.user_id = r2.user_id /\ r1.date = r2.date /\ r1.arch = r2.arch )
              => r1 = r2
        /\ ( /\ outcome'.op = "POST /api/turns"
             /\ outcome'.caller # Null
             /\ WouldDuplicate(dbTurns, Val(outcome'.caller), outcome'.request) )
           => outcome'.status = 409 /\ dbTurns' = dbTurns ]_vars

\* a batch of two answered 409 of which one turn was not stored before
C34_Witness ==
    /\ outcome.op = "POST /api/turns"
    /\ outcome.status = 409
    /\ Len(outcome.request.turns) = 2
    /\ \E i \in 1 .. 2 :
          ~\E r \in dbTurns :
              /\ r.user_id = Val(outcome.caller)
              /\ r.date = Val(outcome.request.turns[i].date)
              /\ r.arch = Val(outcome.request.turns[i].arch)
    /\ \E r \in dbTurns : r.user_id = Val(outcome.caller)

\* C35: API variant, every_n_days, two devices of one user that act only
\* through the buttons their own last render drew: the store never holds two
\* turns of one arch whose dates are less than intervalDays apart
C35_StoredTurnsIntervalApart ==
    dbSettings.scheduleType = "every_n_days"
    => \A r1, r2 \in dbTurns :
          ( r1 # r2 /\ r1.arch = r2.arch /\ r1.date <= r2.date )
          => r2.date - r1.date >= dbSettings.intervalDays

\* the dates of the in-memory turns of one arch
TurnDates(s, arch) ==
    { s.turns[i].date : i \in { j \in 1 .. Len(s.turns) : s.turns[j].arch = arch } }

\* C36: API variant: between operations, also after a failed loadData that
\* follows a successful one, counts.topDone and counts.bottomDone are the
\* numbers of turns of that arch in state.turns and lastDates hold the latest
\* date per arch (null without turns); after a failed load the settings are the
\* defaults
C36_DerivedAgreeWithTurnList ==
    /\ \A arch \in Arches :
          /\ api_logged(appState, arch) = Len(FilterArch(appState.turns, arch))
          /\ api_lastDate(appState, arch)
                = ( IF TurnDates(appState, arch) = {} THEN Null
                    ELSE Some(CHOOSE d \in TurnDates(appState, arch) :
                                \A e \in TurnDates(appState, arch) : e <= d) )
    /\ ( outcome.op \in {"load", "log", "undo"} /\ outcome.saveFailed /\ outcome.mutated )
       => appState.settings = api_defaultSettings /\ appState.turns = <<>>

\* C37: whatever the order of the statements of first logins and of PUT
\* /api/settings requests of one user, the user has at most one settings row,
\* and a PUT answered 200 has stored its values in that row
C37_SettingsSingleton ==
    [][ /\ \A r1, r2 \in dbSettings' : r1.user_id = r2.user_id => r1 = r2
        /\ ( /\ outcome' # outcome
             /\ outcome'.op = "PUT /api/settings"
             /\ outcome'.status = 200 )
           => \E row \in dbSettings' :
                 /\ row.user_id = Val(outcome'.caller)
                 /\ row.values = serverDataToSave(outcome'.request.body) ]_vars

\* a PUT answered 500 because another request inserted the row after its select
C37_Witness ==
    /\ outcome.op = "PUT /api/settings"
    /\ outcome.status = 500
    /\ ~outcome.request.existing
    /\ \E row \in dbSettings :
          /\ row.user_id = Val(outcome.caller)
          /\ row.values # serverDataToSave(outcome.request.body)
          /\ row.values.intervalDays # DefaultIntervalDays

\* C38: legacy: the newest history entry's topDoneAfter and bottomDoneAfter are
\* the current done counts, and undoing a log gives the counters the values
\* they had just before that log, also when the done counts or totals were
\* edited in the settings form between logs
C38_UndoRestoresCounters ==
    /\ Len(state.history) > 0
       => /\ state.history[1].topDoneAfter = state.topDone
          /\ state.history[1].bottomDoneAfter = state.bottomDone
    /\ \A arch \in {"both", "top", "bottom"} :
          ( MayLog(arch) /\ Len(state.history) < MaxHistory )
          => LET back == undoLastLog(legacy_logTurn(state, arch))
             IN  back.topDone = state.topDone /\ back.bottomDone = state.bottomDone

\* C39: legacy: the history never holds more than 50 entries; a log made with
\* 50 entries present drops the oldest entry only; and the undo that empties
\* the history leaves each done counter at its value before the entry it
\* undoes was logged (the snapshot, or one less for a track the entry
\* advanced), also when older entries were dropped before
C39_HistoryCapKeepsCounters ==
    [][ /\ Len(state'.history) <= HistoryCap
        /\ ( outcome'.op = "log" /\ state'.history # state.history )
           => Tail(state'.history)
                = SubSeq(state.history, 1, Min2(Len(state.history), HistoryCap - 1))
        /\ ( outcome'.op = "undo" /\ Len(state.history) = 1 /\ state'.history = <<>> )
           => LET entry == state.history[1]
              IN  /\ state'.topDone \in {entry.topDoneAfter - 1, entry.topDoneAfter}
                  /\ state'.bottomDone \in {entry.bottomDoneAfter - 1, entry.bottomDoneAfter}
                  /\ state'.topDone + state'.bottomDone
                       < entry.topDoneAfter + entry.bottomDoneAfter ]_vars

====
